---------------------------- MODULE Spec2Model ----------------------------
(***************************************************************************)
(* A model of the Redis object layer (src/src/object.c): the robj header,  *)
(* the string encoder, the aggregate constructors, reference counting      *)
(* with the shared (immortal) refcount, the string accessors and the       *)
(* OBJECT command.                                                         *)
(*                                                                         *)
(* Bytes are sequences of one-character strings over Alphabet (kept in     *)
(* ASCII order).  The widths of long and long long are scaled down         *)
(* (LLONG_BITS, LONG32_BITS) so that their limits are values TLC can hold; *)
(* the refcount keeps its real width (OBJ_SHARED_REFCOUNT = INT_MAX).      *)
(***************************************************************************)
EXTENDS Integers, Sequences, FiniteSets, TLC

VARIABLES
    server,   \* server.maxmemory, server.maxmemory_policy and the build's word size
    mem,      \* the heap of robj headers, the free counters and the panic flag
    owned,    \* per header: references the callers currently own
    hist,     \* per header: how it was constructed and what was done to it
    last,     \* the last call: its name, arguments and result
    db,       \* c->db->dict: key -> header address (0 when the key is absent)
    reply,    \* the replies the last command added to the client
    threads   \* per thread: where it is inside incrRefCount or decrRefCount

vars == <<server, mem, owned, hist, last, db, reply, threads>>

(***************************************************************************)
(* Bounds of the model.                                                    *)
(***************************************************************************)
MaxObjs == 2
MaxThreads == 2
MaxRef == 3
MaxLen == 46
LLONG_BITS == 24
LONG32_BITS == 16

(***************************************************************************)
(* Program constants.                                                      *)
(***************************************************************************)
OBJ_ENCODING_EMBSTR_SIZE_LIMIT == 44

OBJ_COMPUTE_SIZE_DEF_SAMPLES == 5
OBJ_SHARED_INTEGERS == 10000
OBJ_SHARED_REFCOUNT == 2147483647
LFU_INIT_VAL == 5

LLONG_MAX == 2^(LLONG_BITS - 1) - 1
LLONG_MIN == 0 - LLONG_MAX - 1

LongBits(lp64) == IF lp64 THEN LLONG_BITS ELSE LONG32_BITS
LONG_MAX(lp64) == 2^(LongBits(lp64) - 1) - 1
LONG_MIN(lp64) == 0 - LONG_MAX(lp64) - 1

(***************************************************************************)
(* Bytes.                                                                  *)
(***************************************************************************)
Alphabet ==
    <<" ", "+", "-", ".", "0", "1", "2", "3", "4", "5", "6", "7", "8", "9",
      "S", "a", "e", "l", "m", "p", "s", "x">>

Ord(c) == CHOOSE i \in 1..Len(Alphabet) : Alphabet[i] = c

IsDigit(c) == Ord(c) >= Ord("0") /\ Ord(c) <= Ord("9")

DigitVal(c) == Ord(c) - Ord("0")

DigitChar(d) == Alphabet[Ord("0") + d]

Rep(c, n) == [i \in 1..n |-> c]

\* memcmp(a, b, n): the sign of the first differing byte among the first n
RECURSIVE memcmp(_, _, _)
memcmp(a, b, n) ==
    IF n = 0 THEN 0
    ELSE IF Head(a) # Head(b) THEN Ord(Head(a)) - Ord(Head(b))
    ELSE memcmp(Tail(a), Tail(b), n - 1)

(***************************************************************************)
(* util.c: integers to decimal text and back.                              *)
(***************************************************************************)
RECURSIVE UDigits(_)
UDigits(n) ==
    IF n < 10 THEN <<DigitChar(n)>>
    ELSE Append(UDigits(n \div 10), DigitChar(n % 10))

\* ll2string / sdsfromlonglong: the decimal text of v
ll2string(v) == IF v < 0 THEN <<"-">> \o UDigits(0 - v) ELSE UDigits(v)

\* the digits of s as a magnitude; -1 on a non-digit or above lim
RECURSIVE ParseMagnitude(_, _, _)
ParseMagnitude(s, acc, lim) ==
    IF s = <<>> THEN acc
    ELSE IF ~IsDigit(Head(s)) THEN -1
    ELSE IF acc > (lim - DigitVal(Head(s))) \div 10 THEN -1
    ELSE ParseMagnitude(Tail(s), acc * 10 + DigitVal(Head(s)), lim)

\* string2ll: the whole string is a canonical decimal long long
string2ll(s) ==
    LET fail == [ok |-> FALSE, val |-> 0] IN
    IF Len(s) = 0 THEN fail
    ELSE IF Len(s) = 1 /\ s[1] = "0" THEN [ok |-> TRUE, val |-> 0]
    ELSE LET neg == s[1] = "-"
             body == IF neg THEN Tail(s) ELSE s
         IN  IF Len(body) = 0 THEN fail
             ELSE IF ~(IsDigit(body[1]) /\ body[1] # "0") THEN fail
             ELSE LET m == ParseMagnitude(body, 0, IF neg THEN LLONG_MAX + 1 ELSE LLONG_MAX)
                  IN  IF m < 0 THEN fail
                      ELSE [ok |-> TRUE, val |-> IF neg THEN 0 - m ELSE m]

\* string2l: string2ll, then the range of long
string2l(s, lp64) ==
    LET r == string2ll(s) IN
    IF r.ok /\ r.val >= LONG_MIN(lp64) /\ r.val <= LONG_MAX(lp64) THEN r
    ELSE [ok |-> FALSE, val |-> 0]


(***************************************************************************)
(* Inputs the callers draw from.                                           *)
(***************************************************************************)
\* texts handed to the string constructors: integers in and out of the shared
\* range, non-canonical numbers, plain text on both sides of 20 and of 44 bytes
StrInputs ==
    { <<>>, <<"7">>, <<"1", "2", "3", "4", "5">>, <<"-", "0">>, <<"0", "7">>,
      <<" ", "4", "2">>, <<"4", "2", "x">>, <<"+", "7">>, <<"-", "7">>,
      ll2string(LONG_MAX(FALSE) + 1),
      Rep("a", OBJ_ENCODING_EMBSTR_SIZE_LIMIT), Rep("a", OBJ_ENCODING_EMBSTR_SIZE_LIMIT + 1),
      Rep("1", MaxLen) }

\* values handed to createStringObjectFromLongLong: the edges of every range
IntInputs ==
    { LLONG_MIN, LONG_MIN(FALSE) - 1, LONG_MIN(FALSE), -1, 0, 7,
      OBJ_SHARED_INTEGERS - 1, OBJ_SHARED_INTEGERS, 12345,
      LONG_MAX(FALSE), LONG_MAX(FALSE) + 1, LLONG_MAX }

\* unused capacity of an sds handed to createObject
AvailInputs == {0, 5}

Keys == {"k1", "k2"}

(***************************************************************************)
(* The robj header and the heap.                                           *)
(***************************************************************************)
NULL == 0

HeapAddr == 1..MaxObjs

\* the indices of shared.integers the inputs can address
SharedIdx ==
    { v \in IntInputs \cup { string2ll(s).val : s \in StrInputs } :
        v >= 0 /\ v < OBJ_SHARED_INTEGERS }

\* shared.integers[v], as an address
SharedAddr(v) == 0 - (v + 1)

SharedAddrs == { SharedAddr(v) : v \in SharedIdx }

Addr == HeapAddr \cup SharedAddrs

\* the heap, and the address past it that a call on a full heap would take
Slots == Addr \cup {MaxObjs + 1}

NullPtr == [kind |-> "null", num |-> 0, buf |-> <<>>, avail |-> 0]

LongPtr(v) == [kind |-> "long", num |-> v, buf |-> <<>>, avail |-> 0]

\* sdsnewlen(ptr, len): a separately allocated sds with no unused capacity
sdsnewlen(bytes) == [kind |-> "sds", num |-> 0, buf |-> bytes, avail |-> 0]

SdsWithAvail(bytes, n) == [kind |-> "sds", num |-> 0, buf |-> bytes, avail |-> n]

\* the sds that lives in the header's own allocation
EmbPtr(bytes) == [kind |-> "embsds", num |-> 0, buf |-> bytes, avail |-> 0]

\* a freshly created, empty container
ContainerPtr(k) == [kind |-> k, num |-> 0, buf |-> <<>>, avail |-> 0]

sdslen(p) == Len(p.buf)

sdsavail(p) == p.avail

\* sdsRemoveFreeSpace: the same bytes with no unused capacity
sdsRemoveFreeSpace(p) == [p EXCEPT !.avail = 0]

NoObj ==
    [st |-> "unalloc", type |-> "NONE", encoding |-> "NONE", refcount |-> 0,
     lru |-> 0, ptr |-> NullPtr]

FreedObj == [NoObj EXCEPT !.st = "freed"]

\* server.maxmemory_policy & MAXMEMORY_FLAG_LFU
PolicyLFU(srv) == srv.policy = "LFU"

\* server.maxmemory_policy & MAXMEMORY_FLAG_NO_SHARED_INTEGERS (= LRU | LFU)
PolicyNoSharedIntegers(srv) == srv.policy \in {"LRU", "LFU"}

\* (LFUGetTimeInMinutes()<<8) | LFU_INIT_VAL, or LRU_CLOCK(); the clock stands at 0
InitialLru(srv) == IF PolicyLFU(srv) THEN LFU_INIT_VAL ELSE 0

\* OBJ_ENCODING_RAW or OBJ_ENCODING_EMBSTR
sdsEncodedObject(o) == o.encoding \in {"RAW", "EMBSTR"}

\* serverPanic / serverAssert: the process aborts with the message
Panic(m, msg) == [m EXCEPT !.panic = msg]

\* zmalloc of a header: the next unused address (none is reused)
Alloc(m, o) == [m EXCEPT !.obj[m.next] = o, !.next = @ + 1]

\* zfree(o)
zfree(m, a) ==
    [m EXCEPT !.obj[a] = FreedObj, !.hdrFrees[a] = @ + 1]

\* sdsfree / quicklistRelease / dictRelease / zfree of o->ptr
FreePayload(m, a) == [m EXCEPT !.ptrFrees[a] = @ + 1]

createObject_zeroRef(m, srv, type, ptr) ==
    [m |-> Alloc(m, [st |-> "live", type |-> type, encoding |-> "RAW",
                     refcount |-> 0, lru |-> InitialLru(srv), ptr |-> ptr]),
     ret |-> m.next]

createObject(m, srv, type, ptr) ==
    [m |-> Alloc(m, [st |-> "live", type |-> type, encoding |-> "RAW",
                     refcount |-> 1, lru |-> InitialLru(srv), ptr |-> ptr]),
     ret |-> m.next]

SetEncoding(r, enc) == [r EXCEPT !.m.obj[r.ret].encoding = enc]

\* makeObjectShared: serverAssert(o->refcount == 1), then the shared refcount
makeObjectShared(o) == [o EXCEPT !.refcount = OBJ_SHARED_REFCOUNT]

createRawStringObject(m, srv, bytes) == createObject(m, srv, "STRING", sdsnewlen(bytes))

createEmbeddedStringObject(m, srv, bytes) ==
    [m |-> Alloc(m, [st |-> "live", type |-> "STRING", encoding |-> "EMBSTR",
                     refcount |-> 1, lru |-> InitialLru(srv), ptr |-> EmbPtr(bytes)]),
     ret |-> m.next]

createStringObject_offByOne(m, srv, bytes) ==
    IF Len(bytes) < OBJ_ENCODING_EMBSTR_SIZE_LIMIT
    THEN createEmbeddedStringObject(m, srv, bytes)
    ELSE createRawStringObject(m, srv, bytes)

createStringObject(m, srv, bytes) ==
    IF Len(bytes) <= OBJ_ENCODING_EMBSTR_SIZE_LIMIT
    THEN createEmbeddedStringObject(m, srv, bytes)
    ELSE createRawStringObject(m, srv, bytes)

incrRefCount_noSharedTest(m, a) ==
    [m EXCEPT !.obj[a].refcount = IF @ = OBJ_SHARED_REFCOUNT THEN 0 - @ - 1 ELSE @ + 1]

incrRefCount(m, a) ==
    IF m.obj[a].refcount # OBJ_SHARED_REFCOUNT
    THEN [m EXCEPT !.obj[a].refcount = @ + 1]
    ELSE m

freeStringObject(m, a) ==
    IF m.obj[a].encoding = "RAW" THEN FreePayload(m, a) ELSE m

freeListObject(m, a) ==
    IF m.obj[a].encoding = "QUICKLIST" THEN FreePayload(m, a)
    ELSE Panic(m, "Unknown list encoding type")

freeSetObject(m, a) ==
    IF m.obj[a].encoding \in {"HT", "INTSET"} THEN FreePayload(m, a)
    ELSE Panic(m, "Unknown set encoding type")

freeZsetObject(m, a) ==
    IF m.obj[a].encoding \in {"SKIPLIST", "ZIPLIST"} THEN FreePayload(m, a)
    ELSE Panic(m, "Unknown sorted set encoding")

freeHashObject(m, a) ==
    IF m.obj[a].encoding \in {"HT", "ZIPLIST"} THEN FreePayload(m, a)
    ELSE Panic(m, "Unknown hash encoding type")

freeModuleObject(m, a) == FreePayload(m, a)

\* the switch of decrRefCount on o->type
FreeDispatch(m, a) ==
    CASE m.obj[a].type = "STRING" -> freeStringObject(m, a)
      [] m.obj[a].type = "LIST" -> freeListObject(m, a)
      [] m.obj[a].type = "SET" -> freeSetObject(m, a)
      [] m.obj[a].type = "ZSET" -> freeZsetObject(m, a)
      [] m.obj[a].type = "HASH" -> freeHashObject(m, a)
      [] m.obj[a].type = "MODULE" -> freeModuleObject(m, a)
      [] OTHER -> Panic(m, "Unknown object type")

decrRefCount_noZeroTest(m, a) ==
    IF m.obj[a].refcount = 1
    THEN LET m1 == FreeDispatch(m, a) IN
         IF m1.panic # "" THEN m1 ELSE zfree(m1, a)
    ELSE IF m.obj[a].refcount # OBJ_SHARED_REFCOUNT
         THEN [m EXCEPT !.obj[a].refcount = @ - 1]
         ELSE m

decrRefCount(m, a) ==
    IF m.obj[a].refcount = 1
    THEN LET m1 == FreeDispatch(m, a) IN
         IF m1.panic # "" THEN m1 ELSE zfree(m1, a)
    ELSE IF m.obj[a].refcount <= 0
         THEN Panic(m, "decrRefCount against refcount <= 0")
         ELSE IF m.obj[a].refcount # OBJ_SHARED_REFCOUNT
              THEN [m EXCEPT !.obj[a].refcount = @ - 1]
              ELSE m

\* resetRefCount
resetRefCount(m, a) == [m EXCEPT !.obj[a].refcount = 0]

(***************************************************************************)
(* incrRefCount and decrRefCount one memory access at a time, as a thread  *)
(* that shares the heap with other threads executes them.                  *)
(***************************************************************************)
Return(th) == [th EXCEPT !.pc = "idle", !.o = NULL, !.val = 0]

Store(m, th, rc) ==
    [m |-> [m EXCEPT !.obj[th.o].refcount = rc],
     th |-> [Return(th) EXCEPT !.stores = @ \cup {th.o}]]

\* if (o->refcount != OBJ_SHARED_REFCOUNT) o->refcount++;
incrRefCountStep(m, th) ==
    LET rc == m.obj[th.o].refcount IN
    CASE th.pc = "incr" ->
            [m |-> m, th |-> IF rc # OBJ_SHARED_REFCOUNT
                             THEN [th EXCEPT !.pc = "incr_load"] ELSE Return(th)]
      [] th.pc = "incr_load" -> [m |-> m, th |-> [th EXCEPT !.pc = "incr_store", !.val = rc]]
      [] th.pc = "incr_store" -> Store(m, th, th.val + 1)

decrRefCountSharedTest_none(rc) == TRUE

\* o->refcount != OBJ_SHARED_REFCOUNT, in decrRefCount
decrRefCountSharedTest(rc) == rc # OBJ_SHARED_REFCOUNT

decrRefCountStep(m, th) ==
    LET rc == m.obj[th.o].refcount IN
    CASE th.pc = "decr" ->
            IF rc = 1
            THEN LET m1 == FreeDispatch(m, th.o) IN
                 IF m1.panic # "" THEN [m |-> m1, th |-> th]
                 ELSE [m |-> zfree(m1, th.o),
                       th |-> [Return(th) EXCEPT !.stores = @ \cup {th.o}]]
            ELSE [m |-> m, th |-> [th EXCEPT !.pc = "decr_le0"]]
      [] th.pc = "decr_le0" ->
            IF rc <= 0
            THEN [m |-> Panic(m, "decrRefCount against refcount <= 0"), th |-> th]
            ELSE [m |-> m, th |-> [th EXCEPT !.pc = "decr_shared"]]
      [] th.pc = "decr_shared" ->
            [m |-> m, th |-> IF decrRefCountSharedTest(rc)
                             THEN [th EXCEPT !.pc = "decr_load"] ELSE Return(th)]
      [] th.pc = "decr_load" -> [m |-> m, th |-> [th EXCEPT !.pc = "decr_store", !.val = rc]]
      [] th.pc = "decr_store" -> Store(m, th, th.val - 1)

(***************************************************************************)
(* Constructors.                                                           *)
(***************************************************************************)
createStringObjectFromLongLong(m, srv, value) ==
    IF value >= 0 /\ value < OBJ_SHARED_INTEGERS
    THEN [m |-> incrRefCount(m, SharedAddr(value)), ret |-> SharedAddr(value)]
    ELSE IF value >= LONG_MIN(srv.lp64) /\ value <= LONG_MAX(srv.lp64)
         THEN LET r == createObject(m, srv, "STRING", NullPtr) IN
              [r EXCEPT !.m.obj[r.ret].encoding = "INT",
                        !.m.obj[r.ret].ptr = LongPtr(value)]
         ELSE createObject(m, srv, "STRING", sdsnewlen(ll2string(value)))

dupStringObject(m, srv, a) ==
    LET o == m.obj[a] IN
    IF o.type # "STRING" THEN [m |-> Panic(m, "o->type == OBJ_STRING"), ret |-> NULL]
    ELSE CASE o.encoding = "RAW" -> createRawStringObject(m, srv, o.ptr.buf)
           [] o.encoding = "EMBSTR" -> createEmbeddedStringObject(m, srv, o.ptr.buf)
           [] o.encoding = "INT" ->
                LET r == createObject(m, srv, "STRING", NullPtr) IN
                [r EXCEPT !.m.obj[r.ret].encoding = "INT",
                          !.m.obj[r.ret].ptr = o.ptr]
           [] OTHER -> [m |-> Panic(m, "Wrong encoding."), ret |-> NULL]

createQuicklistObject(m, srv) ==
    SetEncoding(createObject(m, srv, "LIST", ContainerPtr("quicklist")), "QUICKLIST")

createZiplistObject(m, srv) ==
    SetEncoding(createObject(m, srv, "LIST", ContainerPtr("ziplist")), "ZIPLIST")

createSetObject(m, srv) ==
    SetEncoding(createObject(m, srv, "SET", ContainerPtr("dict")), "HT")

createIntsetObject(m, srv) ==
    SetEncoding(createObject(m, srv, "SET", ContainerPtr("intset")), "INTSET")

createHashObject_noEncoding(m, srv) ==
    createObject(m, srv, "HASH", ContainerPtr("ziplist"))

createHashObject(m, srv) ==
    SetEncoding(createObject(m, srv, "HASH", ContainerPtr("ziplist")), "ZIPLIST")

createZsetObject(m, srv) ==
    SetEncoding(createObject(m, srv, "ZSET", ContainerPtr("zset")), "SKIPLIST")

createZsetZiplistObject(m, srv) ==
    SetEncoding(createObject(m, srv, "ZSET", ContainerPtr("ziplist")), "ZIPLIST")

createModuleObject(m, srv) == createObject(m, srv, "MODULE", ContainerPtr("module"))

\* the aggregate constructors, by name
AggregateCtors ==
    {"createQuicklistObject", "createZiplistObject", "createSetObject",
     "createIntsetObject", "createHashObject", "createZsetObject",
     "createZsetZiplistObject", "createModuleObject"}

CallAggregateCtor(name, m, srv) ==
    CASE name = "createQuicklistObject" -> createQuicklistObject(m, srv)
      [] name = "createZiplistObject" -> createZiplistObject(m, srv)
      [] name = "createSetObject" -> createSetObject(m, srv)
      [] name = "createIntsetObject" -> createIntsetObject(m, srv)
      [] name = "createHashObject" -> createHashObject(m, srv)
      [] name = "createZsetObject" -> createZsetObject(m, srv)
      [] name = "createZsetZiplistObject" -> createZsetZiplistObject(m, srv)
      [] name = "createModuleObject" -> createModuleObject(m, srv)

(***************************************************************************)
(* tryObjectEncoding.                                                      *)
(***************************************************************************)
\* maxmemory == 0 || !(maxmemory_policy & MAXMEMORY_FLAG_NO_SHARED_INTEGERS)
SharedIntegersAllowed(srv) == srv.maxmemory = 0 \/ ~PolicyNoSharedIntegers(srv)

tryEncodeAsLong_newHeader(m, srv, a, value) ==
    IF SharedIntegersAllowed(srv) /\ value >= 0 /\ value < OBJ_SHARED_INTEGERS
    THEN LET m1 == decrRefCount(m, a) IN
         IF m1.panic # "" THEN [m |-> m1, ret |-> NULL]
         ELSE [m |-> incrRefCount(m1, SharedAddr(value)), ret |-> SharedAddr(value)]
    ELSE LET r == createStringObjectFromLongLong(m, srv, value)
             m1 == decrRefCount(r.m, a)
         IN  IF m1.panic # "" THEN [m |-> m1, ret |-> NULL] ELSE [m |-> m1, ret |-> r.ret]

tryEncodeAsLong_keepSds(m, srv, a, value) ==
    IF SharedIntegersAllowed(srv) /\ value >= 0 /\ value < OBJ_SHARED_INTEGERS
    THEN LET m1 == decrRefCount(m, a) IN
         IF m1.panic # "" THEN [m |-> m1, ret |-> NULL]
         ELSE [m |-> incrRefCount(m1, SharedAddr(value)), ret |-> SharedAddr(value)]
    ELSE [m |-> [m EXCEPT !.obj[a].encoding = "INT", !.obj[a].ptr = LongPtr(value)],
          ret |-> a]

\* the string parses as the long `value`: a shared integer, or INT in place
tryEncodeAsLong(m, srv, a, value) ==
    IF SharedIntegersAllowed(srv) /\ value >= 0 /\ value < OBJ_SHARED_INTEGERS
    THEN LET m1 == decrRefCount(m, a) IN
         IF m1.panic # "" THEN [m |-> m1, ret |-> NULL]
         ELSE [m |-> incrRefCount(m1, SharedAddr(value)), ret |-> SharedAddr(value)]
    ELSE LET m1 == IF m.obj[a].encoding = "RAW" THEN FreePayload(m, a) ELSE m IN
         [m |-> [m1 EXCEPT !.obj[a].encoding = "INT", !.obj[a].ptr = LongPtr(value)],
          ret |-> a]

tryEncodeAsEmbstr_keepOriginal(m, srv, a) ==
    IF m.obj[a].encoding = "EMBSTR" THEN [m |-> m, ret |-> a]
    ELSE createEmbeddedStringObject(m, srv, m.obj[a].ptr.buf)

tryEncodeAsEmbstr_alwaysCopy(m, srv, a) ==
    LET r == createEmbeddedStringObject(m, srv, m.obj[a].ptr.buf)
        m1 == decrRefCount(r.m, a)
    IN  IF m1.panic # "" THEN [m |-> m1, ret |-> NULL]
        ELSE [m |-> m1, ret |-> r.ret]

\* the string is short: keep an EMBSTR, replace a RAW by an EMBSTR copy
tryEncodeAsEmbstr(m, srv, a) ==
    IF m.obj[a].encoding = "EMBSTR" THEN [m |-> m, ret |-> a]
    ELSE LET r == createEmbeddedStringObject(m, srv, m.obj[a].ptr.buf)
             m1 == decrRefCount(r.m, a)
         IN  IF m1.panic # "" THEN [m |-> m1, ret |-> NULL]
             ELSE [m |-> m1, ret |-> r.ret]

\* the string stays as it is, but for the unused capacity of a RAW sds
tryTrimSds(m, a) ==
    LET o == m.obj[a] IN
    IF o.encoding = "RAW" /\ sdsavail(o.ptr) > sdslen(o.ptr) \div 10
    THEN [m |-> [m EXCEPT !.obj[a].ptr = sdsRemoveFreeSpace(o.ptr)], ret |-> a]
    ELSE [m |-> m, ret |-> a]

tryObjectEncoding_plusSign(m, srv, a) ==
    LET o == m.obj[a] IN
    IF o.type # "STRING" THEN [m |-> Panic(m, "o->type == OBJ_STRING"), ret |-> NULL]
    ELSE IF ~sdsEncodedObject(o) THEN [m |-> m, ret |-> a]
    ELSE IF o.refcount > 1 THEN [m |-> m, ret |-> a]
    ELSE LET len == sdslen(o.ptr)
             digits == IF len > 0 /\ o.ptr.buf[1] = "+" THEN Tail(o.ptr.buf) ELSE o.ptr.buf
             p == string2l(digits, srv.lp64)
         IN  IF len <= 20 /\ p.ok THEN tryEncodeAsLong(m, srv, a, p.val)
             ELSE IF len <= OBJ_ENCODING_EMBSTR_SIZE_LIMIT THEN tryEncodeAsEmbstr(m, srv, a)
             ELSE tryTrimSds(m, a)

tryObjectEncoding_anyType(m, srv, a) ==
    LET o == m.obj[a] IN
    IF ~sdsEncodedObject(o) THEN [m |-> m, ret |-> a]
    ELSE IF o.refcount > 1 THEN [m |-> m, ret |-> a]
    ELSE LET len == sdslen(o.ptr)
             p == string2l(o.ptr.buf, srv.lp64)
         IN  IF len <= 20 /\ p.ok THEN tryEncodeAsLong(m, srv, a, p.val)
             ELSE IF len <= OBJ_ENCODING_EMBSTR_SIZE_LIMIT THEN tryEncodeAsEmbstr(m, srv, a)
             ELSE tryTrimSds(m, a)

tryObjectEncoding(m, srv, a) ==
    LET o == m.obj[a] IN
    IF o.type # "STRING" THEN [m |-> Panic(m, "o->type == OBJ_STRING"), ret |-> NULL]
    ELSE IF ~sdsEncodedObject(o) THEN [m |-> m, ret |-> a]
    ELSE IF o.refcount > 1 THEN [m |-> m, ret |-> a]
    ELSE LET len == sdslen(o.ptr)
             p == string2l(o.ptr.buf, srv.lp64)
         IN  IF len <= 20 /\ p.ok THEN tryEncodeAsLong(m, srv, a, p.val)
             ELSE IF len <= OBJ_ENCODING_EMBSTR_SIZE_LIMIT THEN tryEncodeAsEmbstr(m, srv, a)
             ELSE tryTrimSds(m, a)

(***************************************************************************)
(* Accessors.                                                              *)
(***************************************************************************)
getDecodedObject_noIncr(m, srv, a) ==
    LET o == m.obj[a] IN
    IF sdsEncodedObject(o) THEN [m |-> m, ret |-> a]
    ELSE IF o.type = "STRING" /\ o.encoding = "INT"
         THEN createStringObject(m, srv, ll2string(o.ptr.num))
         ELSE [m |-> Panic(m, "Unknown encoding type"), ret |-> NULL]

getDecodedObject(m, srv, a) ==
    LET o == m.obj[a] IN
    IF sdsEncodedObject(o) THEN [m |-> incrRefCount(m, a), ret |-> a]
    ELSE IF o.type = "STRING" /\ o.encoding = "INT"
         THEN createStringObject(m, srv, ll2string(o.ptr.num))
         ELSE [m |-> Panic(m, "Unknown encoding type"), ret |-> NULL]

RECURSIVE digits10(_)
\* digits10: the number of decimal digits of v >= 0
digits10(v) == IF v < 10 THEN 1 ELSE 1 + digits10(v \div 10)

\* sdigits10: digits10 of the magnitude, and one more for the minus sign
sdigits10(v) == IF v < 0 THEN digits10(0 - v) + 1 ELSE digits10(v)

stringObjectLen(o) == IF sdsEncodedObject(o) THEN sdslen(o.ptr) ELSE sdigits10(o.ptr.num)

\* the bytes compareStringObjectsWithFlags looks at: in place, or ll2string
StringBytes(o) == IF sdsEncodedObject(o) THEN o.ptr.buf ELSE ll2string(o.ptr.num)

\* strcoll in the C locale: the order of the bytes
strcoll(x, y) ==
    LET minlen == IF Len(x) < Len(y) THEN Len(x) ELSE Len(y)
        cmp == memcmp(x, y, minlen)
    IN  IF cmp = 0 THEN Len(x) - Len(y) ELSE cmp

compareStringObjectsWithFlags(m, a, b, flags) ==
    IF a = b THEN 0
    ELSE LET astr == StringBytes(m.obj[a])
             bstr == StringBytes(m.obj[b])
         IN  IF flags = "COLL" THEN strcoll(astr, bstr)
             ELSE LET minlen == IF Len(astr) < Len(bstr) THEN Len(astr) ELSE Len(bstr)
                      cmp == memcmp(astr, bstr, minlen)
                  IN  IF cmp = 0 THEN Len(astr) - Len(bstr) ELSE cmp

compareStringObjects(m, a, b) == compareStringObjectsWithFlags(m, a, b, "BINARY")

equalStringObjects_headers(m, a, b) ==
    IF m.obj[a].encoding = "INT" /\ m.obj[b].encoding = "INT"
    THEN a = b
    ELSE compareStringObjects(m, a, b) = 0

equalStringObjects(m, a, b) ==
    IF m.obj[a].encoding = "INT" /\ m.obj[b].encoding = "INT"
    THEN m.obj[a].ptr = m.obj[b].ptr
    ELSE compareStringObjects(m, a, b) = 0

getLongLongFromObject_viaLong(m, a) ==
    LET o == m.obj[a] IN
    IF o.type # "STRING" THEN [ok |-> FALSE, val |-> 0, panic |-> "o->type == OBJ_STRING"]
    ELSE IF sdsEncodedObject(o)
         THEN LET r == string2l(o.ptr.buf, FALSE) IN [ok |-> r.ok, val |-> r.val, panic |-> ""]
         ELSE IF o.encoding = "INT" THEN [ok |-> TRUE, val |-> o.ptr.num, panic |-> ""]
              ELSE [ok |-> FALSE, val |-> 0, panic |-> "Unknown string encoding"]

getLongLongFromObject(m, a) ==
    LET o == m.obj[a] IN
    IF o.type # "STRING" THEN [ok |-> FALSE, val |-> 0, panic |-> "o->type == OBJ_STRING"]
    ELSE IF sdsEncodedObject(o)
         THEN LET r == string2ll(o.ptr.buf) IN [ok |-> r.ok, val |-> r.val, panic |-> ""]
         ELSE IF o.encoding = "INT" THEN [ok |-> TRUE, val |-> o.ptr.num, panic |-> ""]
              ELSE [ok |-> FALSE, val |-> 0, panic |-> "Unknown string encoding"]

(***************************************************************************)
(* n calls in a row, composed: what incrRefCount and decrRefCount leave    *)
(* after the caller has taken, or dropped, n references one by one.        *)
(***************************************************************************)
incrRefCountTimes(m, a, n) ==
    IF m.obj[a].refcount = OBJ_SHARED_REFCOUNT THEN m
    ELSE IF n >= OBJ_SHARED_REFCOUNT - m.obj[a].refcount
         THEN [m EXCEPT !.obj[a].refcount = OBJ_SHARED_REFCOUNT]
         ELSE [m EXCEPT !.obj[a].refcount = @ + n]

\* for n below the refcount (no call finds 1), or on the shared refcount
decrRefCountTimes(m, a, n) ==
    IF m.obj[a].refcount = OBJ_SHARED_REFCOUNT THEN m
    ELSE [m EXCEPT !.obj[a].refcount = @ - n]

\* the references a caller takes or drops in one such run
ManyRefs == OBJ_SHARED_REFCOUNT - 1 - MaxRef

(***************************************************************************)
(* The state after startup.                                                *)
(***************************************************************************)
Policies == {"NONE", "LRU", "LFU"}

\* createSharedObjects: makeObjectShared(createObject(OBJ_STRING, (void*)(long)j))
\* with the INT encoding, for every j below OBJ_SHARED_INTEGERS
SharedInteger(srv, v) ==
    makeObjectShared(
        [st |-> "live", type |-> "STRING", encoding |-> "INT", refcount |-> 1,
         lru |-> InitialLru(srv), ptr |-> LongPtr(v)])

InitialObj(srv, a) ==
    IF a \in SharedAddrs THEN SharedInteger(srv, 0 - a - 1) ELSE NoObj

NoHist == [ctor |-> "none", arg |-> 0, refOpsOnly |-> TRUE, freedBy |-> "none", freedRc |-> 0]

LastNone ==
    [op |-> "none", a |-> NULL, b |-> NULL, ret |-> NULL, val |-> 0, len |-> 0,
     rc0 |-> 0, ok |-> FALSE, sub |-> "", argc |-> 0, key |-> "", opts |-> <<>>,
     mh |-> <<>>]

\* thread 1 executes the commands, the others are background threads
Threads == 1..MaxThreads

MainThread == 1

\* pc: the statement the thread is at; o: the header it was passed; val: the
\* refcount it loaded; jobs: the headers handed to it and not yet released;
\* handed: every header it was ever handed; stores: the headers it wrote to
IdleThread == [pc |-> "idle", o |-> NULL, val |-> 0, jobs |-> {}, handed |-> {}, stores |-> {}]

\* every configuration: maxmemory unset or set, each kind of policy, and a build
\* whose long is as wide as long long or narrower
Servers == [maxmemory : {0, 1}, policy : Policies, lp64 : BOOLEAN]

\* the default configuration: no maxmemory, noeviction
DefaultServer == [maxmemory |-> 0, policy |-> "NONE", lp64 |-> TRUE]

InitWith(S) ==
    /\ server \in S
    /\ mem = [obj |-> [a \in Slots |-> InitialObj(server, a)],
              next |-> 1,
              hdrFrees |-> [a \in Slots |-> 0],
              ptrFrees |-> [a \in Slots |-> 0],
              panic |-> ""]
    /\ owned = [a \in Addr |-> 0]
    /\ hist = [a \in Addr |-> IF a \in SharedAddrs
                              THEN [NoHist EXCEPT !.ctor = "createSharedObjects",
                                                  !.arg = 0 - a - 1]
                              ELSE NoHist]
    /\ last = LastNone
    /\ db = [k \in Keys |-> NULL]
    /\ reply = <<>>
    /\ threads = [t \in Threads |-> IdleThread]

Init == InitWith(Servers)

Running == mem.panic = ""

\* a header a caller can pass: live, and referenced by the caller or handed off
\* by resetRefCount
Accessible(a) ==
    /\ a \in Addr
    /\ mem.obj[a].st = "live"
    /\ (owned[a] > 0 \/ mem.obj[a].refcount = 0)

Dec(n) == IF n > 0 THEN n - 1 ELSE 0

\* the callers' references: counted for the headers of the heap; for a value of
\* the registry, only whether a caller has been handed it
Take(own, x) ==
    IF x \in HeapAddr THEN [own EXCEPT ![x] = @ + 1]
    ELSE IF x \in SharedAddrs THEN [own EXCEPT ![x] = 1]
    ELSE own

Drop(own, x) == IF x \in HeapAddr THEN [own EXCEPT ![x] = Dec(@)] ELSE own

CanTake(x) ==
    /\ x \in HeapAddr => owned[x] < MaxRef
    /\ x \in SharedAddrs =>
          mem.obj[x].refcount < MaxRef \/ mem.obj[x].refcount = OBJ_SHARED_REFCOUNT

\* what a call did to the headers it freed or touched
Record(h, m1, op, a, refOp) ==
    [x \in Addr |->
        LET t == IF x = a /\ ~refOp THEN [h[x] EXCEPT !.refOpsOnly = FALSE] ELSE h[x] IN
        IF m1.hdrFrees[x] > mem.hdrFrees[x]
        THEN [t EXCEPT !.freedBy = op, !.freedRc = mem.obj[x].refcount]
        ELSE t]

(***************************************************************************)
(* The calls.                                                              *)
(***************************************************************************)
\* a constructor returned r: the caller owns the reference it was given
Constructed(op, r, val, len) ==
    /\ Running
    /\ r.m.next <= MaxObjs + 1
    /\ CanTake(r.ret)
    /\ mem' = r.m
    /\ owned' = Take(owned, r.ret)
    /\ hist' = IF r.ret \in HeapAddr
               THEN [hist EXCEPT ![r.ret] = [NoHist EXCEPT !.ctor = op, !.arg = val]]
               ELSE hist
    /\ last' = [LastNone EXCEPT !.op = op, !.ret = r.ret, !.val = val, !.len = len]
    /\ UNCHANGED <<threads, server, db, reply>>

CreateObject(S, A) ==
    \E bytes \in S, n \in A :
        Constructed("createObject",
                    createObject(mem, server, "STRING", SdsWithAvail(bytes, n)), 0, Len(bytes))

CreateRawStringObject(S) ==
    \E bytes \in S :
        Constructed("createRawStringObject",
                    createRawStringObject(mem, server, bytes), 0, Len(bytes))

CreateEmbeddedStringObject(S) ==
    \E bytes \in S :
        Constructed("createEmbeddedStringObject",
                    createEmbeddedStringObject(mem, server, bytes), 0, Len(bytes))

CreateStringObject(S) ==
    \E bytes \in S :
        Constructed("createStringObject", createStringObject(mem, server, bytes), 0, Len(bytes))

CreateStringObjectFromLongLong(V) ==
    \E value \in V :
        Constructed("createStringObjectFromLongLong",
                    createStringObjectFromLongLong(mem, server, value), value, 0)

\* createStringObjectFromLongDouble: createStringObject on the text ld2string wrote
CreateStringObjectFromLongDouble(S) ==
    \E text \in S :
        Constructed("createStringObjectFromLongDouble",
                    createStringObject(mem, server, text), 0, Len(text))

CreateAggregate(N) ==
    \E name \in N :
        Constructed(name, CallAggregateCtor(name, mem, server), 0, 0)

DupStringObject ==
    \E a \in Addr :
        /\ Accessible(a)
        /\ mem.obj[a].type = "STRING"
        /\ Constructed("dupStringObject", dupStringObject(mem, server, a), 0, 0)

IncrRefCount ==
    \E a \in Addr :
        /\ Running
        /\ Accessible(a)
        /\ \/ CanTake(a)
           \/ owned[a] >= OBJ_SHARED_REFCOUNT - MaxRef /\ owned[a] < OBJ_SHARED_REFCOUNT
        /\ mem' = incrRefCount(mem, a)
        /\ owned' = Take(owned, a)
        /\ hist' = Record(hist, mem', "incrRefCount", a, TRUE)
        /\ last' = [LastNone EXCEPT !.op = "incrRefCount", !.a = a,
                                    !.rc0 = mem.obj[a].refcount]
        /\ UNCHANGED <<threads, server, db, reply>>

DecrRefCount ==
    \E a \in Addr :
        /\ Running
        /\ Accessible(a)
        /\ owned[a] <= MaxRef \/ owned[a] > OBJ_SHARED_REFCOUNT - MaxRef
        /\ mem' = decrRefCount(mem, a)
        /\ owned' = Drop(owned, a)
        /\ hist' = Record(hist, mem', "decrRefCount", a, TRUE)
        /\ last' = [LastNone EXCEPT !.op = "decrRefCount", !.a = a,
                                    !.rc0 = mem.obj[a].refcount]
        /\ UNCHANGED <<threads, server, db, reply>>

\* ManyRefs calls of incrRefCount in a row
IncrRefCountMany ==
    \E a \in HeapAddr :
        /\ Running
        /\ Accessible(a)
        /\ owned[a] > 0 /\ owned[a] <= MaxRef
        /\ mem' = incrRefCountTimes(mem, a, ManyRefs)
        /\ owned' = [owned EXCEPT ![a] = @ + ManyRefs]
        /\ hist' = Record(hist, mem', "incrRefCount", a, TRUE)
        /\ last' = [LastNone EXCEPT !.op = "incrRefCount", !.a = a, !.val = ManyRefs,
                                    !.rc0 = mem.obj[a].refcount]
        /\ UNCHANGED <<threads, server, db, reply>>

\* ManyRefs calls of decrRefCount in a row, by a caller that owns more than that
DecrRefCountMany ==
    \E a \in HeapAddr :
        /\ Running
        /\ Accessible(a)
        /\ owned[a] > ManyRefs
        /\ \/ mem.obj[a].refcount = OBJ_SHARED_REFCOUNT
           \/ mem.obj[a].refcount > ManyRefs
        /\ mem' = decrRefCountTimes(mem, a, ManyRefs)
        /\ owned' = [owned EXCEPT ![a] = @ - ManyRefs]
        /\ hist' = Record(hist, mem', "decrRefCount", a, TRUE)
        /\ last' = [LastNone EXCEPT !.op = "decrRefCount", !.a = a, !.val = ManyRefs,
                                    !.rc0 = mem.obj[a].refcount]
        /\ UNCHANGED <<threads, server, db, reply>>

\* resetRefCount: the caller's reference is handed to whoever increments next
ResetRefCount ==
    \E a \in Addr :
        /\ Running
        /\ Accessible(a)
        /\ mem' = resetRefCount(mem, a)
        /\ owned' = Drop(owned, a)
        /\ hist' = Record(hist, mem', "resetRefCount", a, FALSE)
        /\ last' = [LastNone EXCEPT !.op = "resetRefCount", !.a = a, !.ret = a,
                                    !.rc0 = mem.obj[a].refcount]
        /\ UNCHANGED <<threads, server, db, reply>>

\* tryObjectEncoding: the caller's reference to o becomes its reference to the result
TryObjectEncoding ==
    \E a \in Addr :
        LET r == tryObjectEncoding(mem, server, a) IN
        /\ Running
        /\ Accessible(a)
        /\ r.m.next <= MaxObjs + 1
        /\ r.ret = a \/ CanTake(r.ret)
        /\ mem' = r.m
        /\ owned' = IF r.ret = a \/ r.ret = NULL THEN owned
                    ELSE Take(Drop(owned, a), r.ret)
        /\ hist' = LET h == Record(hist, r.m, "tryObjectEncoding", a, FALSE) IN
                   IF r.ret \in HeapAddr /\ r.ret # a
                   THEN [h EXCEPT ![r.ret] = [NoHist EXCEPT !.ctor = "tryObjectEncoding"]]
                   ELSE h
        /\ last' = [LastNone EXCEPT !.op = "tryObjectEncoding", !.a = a, !.ret = r.ret,
                                    !.rc0 = mem.obj[a].refcount, !.ok = r.m.panic = ""]
        /\ UNCHANGED <<threads, server, db, reply>>

GetDecodedObject ==
    \E a \in Addr :
        LET r == getDecodedObject(mem, server, a) IN
        /\ Running
        /\ Accessible(a)
        /\ mem.obj[a].type = "STRING"
        /\ r.m.next <= MaxObjs + 1
        /\ CanTake(r.ret)
        /\ mem' = r.m
        /\ owned' = Take(owned, r.ret)
        /\ hist' = IF r.ret # a
                   THEN [hist EXCEPT ![r.ret] = [NoHist EXCEPT !.ctor = "getDecodedObject"]]
                   ELSE Record(hist, r.m, "getDecodedObject", a, FALSE)
        /\ last' = [LastNone EXCEPT !.op = "getDecodedObject", !.a = a, !.ret = r.ret,
                                    !.rc0 = mem.obj[a].refcount]
        /\ UNCHANGED <<threads, server, db, reply>>

EqualStringObjects ==
    \E a \in Addr, b \in Addr :
        /\ Running
        /\ Accessible(a) /\ Accessible(b)
        /\ mem.obj[a].type = "STRING" /\ mem.obj[b].type = "STRING"
        /\ last' = [LastNone EXCEPT !.op = "equalStringObjects", !.a = a, !.b = b,
                                    !.ok = equalStringObjects(mem, a, b)]
        /\ UNCHANGED <<threads, server, mem, owned, hist, db, reply>>

GetLongLongFromObject ==
    \E a \in Addr :
        LET r == getLongLongFromObject(mem, a) IN
        /\ Running
        /\ Accessible(a)
        /\ mem' = [mem EXCEPT !.panic = r.panic]
        /\ last' = [LastNone EXCEPT !.op = "getLongLongFromObject", !.a = a,
                                    !.ok = r.ok, !.val = r.val]
        /\ UNCHANGED <<threads, server, owned, hist, db, reply>>

(***************************************************************************)
(* The OBJECT command.                                                     *)
(***************************************************************************)
Reply(type, num, text) == [type |-> type, num |-> num, text |-> text]

SubInputs ==
    {"help", "refcount", "Encoding", "idletime", "IDLETIME", "freq", "FREQ", "bogus"}

\* strcasecmp(argv[1], name) == 0
strcasecmp0(arg, name) ==
    CASE name = "help" -> arg \in {"help", "HELP"}
      [] name = "refcount" -> arg = "refcount"
      [] name = "encoding" -> arg \in {"encoding", "Encoding"}
      [] name = "idletime" -> arg \in {"idletime", "IDLETIME"}
      [] name = "freq" -> arg \in {"freq", "FREQ"}
      [] name = "usage" -> arg \in {"usage", "USAGE"}
      [] name = "stats" -> arg = "stats"
      [] name = "malloc-stats" -> arg = "malloc-stats"
      [] name = "doctor" -> arg = "doctor"
      [] name = "purge" -> arg = "purge"
      [] OTHER -> FALSE

strEncoding(encoding) ==
    CASE encoding = "RAW" -> "raw"
      [] encoding = "INT" -> "int"
      [] encoding = "HT" -> "hashtable"
      [] encoding = "QUICKLIST" -> "quicklist"
      [] encoding = "ZIPLIST" -> "ziplist"
      [] encoding = "INTSET" -> "intset"
      [] encoding = "SKIPLIST" -> "skiplist"
      [] encoding = "EMBSTR" -> "embstr"
      [] OTHER -> "unknown"

\* estimateObjectIdleTime(o)/1000: the clock has not moved since o->lru was set
estimateObjectIdleSeconds(o) == 0

\* LFUDecrAndReturn(o): the counter of o->lru, nothing to decay yet
LFUDecrAndReturn(o) == o.lru % 256

\* objectCommandLookup: dictFind on c->db->dict
objectCommandLookup(d, key) == d[key]

objectCommandLookupOrReply_silent(d, key, nullreply) == <<>>

\* objectCommandLookupOrReply: the replies it adds
objectCommandLookupOrReply(d, key, nullreply) ==
    IF objectCommandLookup(d, key) = NULL THEN <<nullreply>> ELSE <<>>

NullBulk == Reply("nullbulk", 0, "")

objectCommand_freqUnlessLRU(m, srv, d, sub, argc, key) ==
    LET o == objectCommandLookup(d, key)
        miss == objectCommandLookupOrReply(d, key, NullBulk)
    IN  IF strcasecmp0(sub, "idletime") /\ argc = 3
        THEN IF o = NULL THEN miss
             ELSE IF PolicyLFU(srv) THEN <<Reply("error", 0, "idle time not tracked")>>
             ELSE <<Reply("integer", estimateObjectIdleSeconds(m.obj[o]), "")>>
        ELSE IF o = NULL THEN miss
             ELSE IF srv.policy = "LRU"
                  THEN <<Reply("error", 0, "access frequency not tracked")>>
                  ELSE <<Reply("integer", LFUDecrAndReturn(m.obj[o]), "")>>

\* the IDLETIME and FREQ branches
objectCommandEviction(m, srv, d, sub, argc, key) ==
    LET o == objectCommandLookup(d, key)
        miss == objectCommandLookupOrReply(d, key, NullBulk)
    IN  IF strcasecmp0(sub, "idletime") /\ argc = 3
        THEN IF o = NULL THEN miss
             ELSE IF PolicyLFU(srv) THEN <<Reply("error", 0, "idle time not tracked")>>
             ELSE <<Reply("integer", estimateObjectIdleSeconds(m.obj[o]), "")>>
        ELSE IF o = NULL THEN miss
             ELSE IF ~PolicyLFU(srv)
                  THEN <<Reply("error", 0, "access frequency not tracked")>>
                  ELSE <<Reply("integer", LFUDecrAndReturn(m.obj[o]), "")>>

\* the replies objectCommand adds for argv[1] = sub, argv[2] = key
objectCommand(m, srv, d, sub, argc, key) ==
    LET o == objectCommandLookup(d, key)
        miss == objectCommandLookupOrReply(d, key, NullBulk)
    IN  IF strcasecmp0(sub, "help") /\ argc = 2
        THEN <<Reply("multibulk", 5, "")>> \o [i \in 1..5 |-> Reply("status", i, "help")]
        ELSE IF strcasecmp0(sub, "refcount") /\ argc = 3
        THEN IF o = NULL THEN miss ELSE <<Reply("integer", m.obj[o].refcount, "")>>
        ELSE IF strcasecmp0(sub, "encoding") /\ argc = 3
        THEN IF o = NULL THEN miss ELSE <<Reply("bulk", 0, strEncoding(m.obj[o].encoding))>>
        ELSE IF (strcasecmp0(sub, "idletime") \/ strcasecmp0(sub, "freq")) /\ argc = 3
        THEN objectCommandEviction(m, srv, d, sub, argc, key)
        ELSE <<Reply("error", 0, "Unknown subcommand or wrong number of arguments")>>

\* dbAdd: the key takes over the caller's reference to the value
DbAdd ==
    \E key \in Keys, a \in Addr :
        /\ Running
        /\ Accessible(a)
        /\ owned[a] > 0
        /\ db[key] = NULL
        /\ db' = [db EXCEPT ![key] = a]
        /\ owned' = Drop(owned, a)
        /\ hist' = Record(hist, mem, "dbAdd", a, FALSE)
        /\ last' = [LastNone EXCEPT !.op = "dbAdd", !.a = a, !.key = key]
        /\ UNCHANGED <<threads, server, mem, reply>>

\* argc counts the command name: OBJECT <sub> has 2, OBJECT <sub> <key> has 3
ObjectCommand ==
    \E sub \in SubInputs, argc \in 2..4, key \in Keys :
        /\ Running
        /\ \A k \in Keys : db[k] # NULL => mem.obj[db[k]].st = "live"
        /\ reply' = objectCommand(mem, server, db, sub, argc, key)
        /\ last' = [LastNone EXCEPT !.op = "objectCommand", !.sub = sub, !.argc = argc,
                                    !.key = key, !.a = db[key]]
        /\ UNCHANGED <<threads, server, mem, owned, hist, db>>

(***************************************************************************)
(* Specifications.                                                         *)
(***************************************************************************)
\* reference counting: a few values, every sequence of calls on them
RefStrInputs == { Rep("a", OBJ_ENCODING_EMBSTR_SIZE_LIMIT + 1) }

RefIntInputs == { 7 }

Next ==
    \/ CreateStringObject(RefStrInputs)
    \/ CreateStringObjectFromLongLong(RefIntInputs)
    \/ IncrRefCount
    \/ DecrRefCount
    \/ IncrRefCountMany
    \/ DecrRefCountMany

Spec == InitWith({DefaultServer}) /\ [][Next]_vars

\* the constructors: one call on a fresh heap under every server configuration,
\* then copies of its result and reads of its value
LdInputs == { <<"3", ".", "5">>, <<"7">> }

\* nothing allocated and no registry value handed out yet
FreshHeap == mem.next = 1 /\ \A a \in SharedAddrs : owned[a] = 0

NextString ==
    \/ /\ FreshHeap
       /\ \/ CreateObject(StrInputs, AvailInputs)
          \/ CreateRawStringObject(StrInputs)
          \/ CreateEmbeddedStringObject(StrInputs)
          \/ CreateStringObject(StrInputs)
          \/ CreateStringObjectFromLongLong(IntInputs)
          \/ CreateStringObjectFromLongDouble(LdInputs)
          \/ CreateAggregate(AggregateCtors)
    \/ DupStringObject
    \/ GetLongLongFromObject

SpecString == Init /\ [][NextString]_vars

\* the string encoder: one constructor call on a fresh heap under every server
\* configuration, then tryObjectEncoding on what it returned, again and again,
\* with the value referenced once, several times, or not yet at all
NextEncode ==
    \/ /\ FreshHeap
       /\ \/ CreateObject(StrInputs, AvailInputs)
          \/ CreateRawStringObject(StrInputs)
          \/ CreateEmbeddedStringObject(StrInputs)
          \/ CreateStringObject(StrInputs)
          \/ CreateStringObjectFromLongLong(IntInputs)
          \/ CreateAggregate(AggregateCtors)
    \/ IncrRefCount
    \/ ResetRefCount
    \/ TryObjectEncoding

SpecEncode == Init /\ [][NextEncode]_vars

\* comparison: two string values, every pair of forms
CmpStrInputs ==
    { <<>>, <<"7">>, <<"0", "7">>, <<"1", "2", "3", "4", "5">>, <<"1", "2", "3", "4", "5", "a">>,
      <<"-", "1">>, Rep("a", OBJ_ENCODING_EMBSTR_SIZE_LIMIT + 1) }

CmpIntInputs == { -1, 7, 12345 }

NextCompare ==
    \/ CreateStringObject(CmpStrInputs)
    \/ CreateRawStringObject(CmpStrInputs)
    \/ CreateStringObjectFromLongLong(CmpIntInputs)
    \/ EqualStringObjects

SpecCompare == InitWith({DefaultServer}) /\ [][NextCompare]_vars

\* the OBJECT command over a small keyspace, under each kind of policy
ObjStrInputs == { <<"7">> }

ObjIntInputs == { 7 }

ObjAggregates == {"createHashObject"}

NextObject ==
    \/ CreateStringObject(ObjStrInputs)
    \/ CreateStringObjectFromLongLong(ObjIntInputs)
    \/ CreateAggregate(ObjAggregates)
    \/ DbAdd
    \/ ObjectCommand

SpecObject ==
    InitWith({ s \in Servers : s.maxmemory = 1 /\ s.lp64 }) /\ [][NextObject]_vars

(***************************************************************************)
(* Reference counting (checked under Spec).                                *)
(***************************************************************************)
\* a header of the heap that a constructor returned and that only incrRefCount
\* and decrRefCount have been called on since
CountedValue(a) == a \in HeapAddr /\ hist[a].ctor # "none" /\ hist[a].refOpsOnly

\* C1: refcount conservation. A non-shared value created at refcount 1 is freed
\* at most once, only by the decrRefCount that finds refcount = 1, never while
\* a caller still holds a reference, and it has been freed once every
\* reference taken by the constructor's caller or by incrRefCount has been
\* given back by a decrRefCount (frees = constructions).
C1_RefcountConservation ==
    \A a \in HeapAddr :
        CountedValue(a) =>
            /\ mem.hdrFrees[a] <= 1
            /\ mem.hdrFrees[a] = 1 =>
                  /\ hist[a].freedBy = "decrRefCount"
                  /\ hist[a].freedRc = 1
                  /\ owned[a] = 0
            /\ owned[a] = 0 => mem.hdrFrees[a] = 1

\* C2: shared immutability. A call of incrRefCount or decrRefCount on a value
\* whose refcount is OBJ_SHARED_REFCOUNT leaves the refcount, the encoding and
\* the payload as they were, and frees neither the header nor the payload.
C2_SharedImmutable ==
    [][\A a \in Addr :
          ( /\ last'.op \in {"incrRefCount", "decrRefCount"}
            /\ last'.a = a
            /\ mem.obj[a].st = "live"
            /\ mem.obj[a].refcount = OBJ_SHARED_REFCOUNT )
          => /\ mem'.obj[a] = mem.obj[a]
             /\ mem'.hdrFrees[a] = mem.hdrFrees[a]
             /\ mem'.ptrFrees[a] = mem.ptrFrees[a]
             /\ mem'.panic = ""]_vars

\* decrRefCount has been called on a value of the registry
C2_Witness ==
    /\ last.op = "decrRefCount"
    /\ last.a \in SharedAddrs
    /\ last.rc0 = OBJ_SHARED_REFCOUNT
    /\ mem.obj[last.a].refcount = OBJ_SHARED_REFCOUNT
    /\ mem.hdrFrees[last.a] = 0

(***************************************************************************)
(* Constructors (checked under SpecString).                                *)
(***************************************************************************)
ConstructorOps ==
    {"createObject", "createRawStringObject", "createEmbeddedStringObject",
     "createStringObject", "createStringObjectFromLongLong",
     "createStringObjectFromLongDouble", "dupStringObject"} \cup AggregateCtors

\* the last call was a constructor, and it returned
ConstructorReturned == last.op \in ConstructorOps /\ Running /\ last.ret # NULL

\* C3 as stated: every successful constructor returns a value whose refcount
\* is 1.
C3_EveryConstructorRefcountOne ==
    ConstructorReturned => mem.obj[last.ret].refcount = 1

\* C3, amended: every successful constructor returns a live value; the value is
\* a new header with refcount 1 owned by the caller, except that
\* createStringObjectFromLongLong(v) with 0 <= v < OBJ_SHARED_INTEGERS returns
\* the registry's value for v, which keeps the refcount OBJ_SHARED_REFCOUNT.
C3_ConstructorRefcount ==
    ConstructorReturned =>
        /\ mem.obj[last.ret].st = "live"
        /\ IF last.op = "createStringObjectFromLongLong"
              /\ last.val >= 0 /\ last.val < OBJ_SHARED_INTEGERS
           THEN /\ last.ret = SharedAddr(last.val)
                /\ mem.obj[last.ret].refcount = OBJ_SHARED_REFCOUNT
           ELSE /\ last.ret \in HeapAddr
                /\ mem.obj[last.ret].refcount = 1
                /\ owned[last.ret] = 1

\* createStringObjectFromLongLong has returned a value of the registry
C3_Witness ==
    /\ ConstructorReturned
    /\ last.op = "createStringObjectFromLongLong"
    /\ last.ret \in SharedAddrs
    /\ mem.obj[last.ret].refcount = OBJ_SHARED_REFCOUNT

\* C5: createStringObjectFromLongLong(v) returns the registry's value for v if
\* 0 <= v < OBJ_SHARED_INTEGERS and the policy does not disable shared
\* integers; otherwise a new INT-encoded value holding v if v fits a long, and
\* otherwise a new RAW string holding the decimal text of v. In particular,
\* with shared integers disabled, a v below OBJ_SHARED_INTEGERS yields a new
\* value and not the registry's.
C5_FromLongLongForms ==
    (last.op = "createStringObjectFromLongLong" /\ Running) =>
        LET v == last.val
            o == mem.obj[last.ret]
        IN  IF v >= 0 /\ v < OBJ_SHARED_INTEGERS /\ SharedIntegersAllowed(server)
            THEN last.ret = SharedAddr(v)
            ELSE /\ last.ret \in HeapAddr
                 /\ o.type = "STRING"
                 /\ IF v >= LONG_MIN(server.lp64) /\ v <= LONG_MAX(server.lp64)
                    THEN o.encoding = "INT" /\ o.ptr = LongPtr(v)
                    ELSE o.encoding = "RAW" /\ o.ptr.buf = ll2string(v)

C9_IntegerRoundTrip ==
    ( /\ last.op = "getLongLongFromObject"
      /\ \/ hist[last.a].ctor = "createStringObjectFromLongLong"
         \/ last.a \in SharedAddrs )
    => /\ last.ok
       /\ last.val = hist[last.a].arg
       /\ Running

\* the value read back was a RAW string: v was too wide for this build's long
C9_Witness ==
    /\ last.op = "getLongLongFromObject"
    /\ hist[last.a].ctor = "createStringObjectFromLongLong"
    /\ mem.obj[last.a].encoding = "RAW"
    /\ last.ok
    /\ last.val = LONG_MAX(FALSE) + 1

(***************************************************************************)
(* The string encoder (checked under SpecEncode).                          *)
(***************************************************************************)
\* the table of types and their encodings
ValidEncodings(type) ==
    CASE type = "STRING" -> {"RAW", "EMBSTR", "INT"}
      [] type = "LIST" -> {"QUICKLIST", "ZIPLIST"}
      [] type = "SET" -> {"HT", "INTSET"}
      [] type = "HASH" -> {"HT", "ZIPLIST"}
      [] type = "ZSET" -> {"SKIPLIST", "ZIPLIST"}
      [] type = "MODULE" -> {"RAW"}
      [] OTHER -> {}

\* C4: encoding closure. After any constructor and any number of
\* tryObjectEncoding calls, every live value has an encoding that the table
\* allows for its type.
C4_EncodingClosure ==
    \A a \in Addr :
        mem.obj[a].st = "live" => mem.obj[a].encoding \in ValidEncodings(mem.obj[a].type)

\* tryObjectEncoding has turned a string of the heap into an INT in place
C4_Witness ==
    /\ last.op = "tryObjectEncoding"
    /\ last.ret = last.a
    /\ last.ret \in HeapAddr
    /\ hist[last.ret].ctor \in {"createRawStringObject", "createEmbeddedStringObject"}
    /\ mem.obj[last.ret].encoding = "INT"

\* C7: tryObjectEncoding is idempotent. Called on what tryObjectEncoding
\* returned, it returns the same header and changes nothing: the encoding and
\* the bytes stay those of the first result, with shared integers enabled
\* or disabled.
C7_TryEncodeIdempotent ==
    (last.op = "tryObjectEncoding" /\ Running /\ last.ret # NULL) =>
        LET again == tryObjectEncoding(mem, server, last.ret) IN
        /\ again.ret = last.ret
        /\ again.m.panic = ""
        /\ again.m.obj[again.ret].encoding = mem.obj[last.ret].encoding
        /\ StringBytes(again.m.obj[again.ret]) = StringBytes(mem.obj[last.ret])
        /\ again.m = mem

\* tryObjectEncoding has replaced a RAW string by an EMBSTR copy
C7_Witness ==
    /\ last.op = "tryObjectEncoding"
    /\ Running
    /\ last.ret \in HeapAddr
    /\ last.ret # last.a
    /\ mem.obj[last.ret].encoding = "EMBSTR"
    /\ mem.obj[last.a].st = "freed"

(***************************************************************************)
(* Comparison (checked under SpecCompare).                                 *)
(***************************************************************************)
\* C8: equalStringObjects agrees with compareStringObjects. For two string
\* values in any mix of the INT, EMBSTR and RAW encodings,
\* equalStringObjects(a, b) holds if and only if the binary comparison of a
\* and b returns 0.
C8_EqualsIffCompareZero ==
    last.op = "equalStringObjects" =>
        (last.ok <=> compareStringObjects(mem, last.a, last.b) = 0)

\* an INT-encoded value was found equal to a string holding its digits
C8_Witness ==
    /\ last.op = "equalStringObjects"
    /\ last.ok
    /\ last.a # last.b
    /\ mem.obj[last.a].encoding = "INT"
    /\ sdsEncodedObject(mem.obj[last.b])

(***************************************************************************)
(* The OBJECT command (checked under SpecObject).                          *)
(***************************************************************************)
\* the reply list holds exactly one reply, of the given type
OneReply(type) == Len(reply) = 1 /\ reply[1].type = type

\* C10: policy mismatch in OBJECT. For a key that exists, OBJECT IDLETIME adds
\* exactly one reply, an error if the policy is LFU and an integer if not;
\* OBJECT FREQ adds exactly one reply, an error if the policy is not LFU and
\* an integer if it is.
C10_PolicyMismatch ==
    (last.op = "objectCommand" /\ last.argc = 3 /\ last.a # NULL) =>
        /\ strcasecmp0(last.sub, "idletime") =>
              IF PolicyLFU(server) THEN OneReply("error") ELSE OneReply("integer")
        /\ strcasecmp0(last.sub, "freq") =>
              IF PolicyLFU(server) THEN OneReply("integer") ELSE OneReply("error")

\* OBJECT FREQ on an existing key under the noeviction policy: an error
C10_Witness ==
    /\ last.op = "objectCommand"
    /\ last.argc = 3
    /\ last.a # NULL
    /\ strcasecmp0(last.sub, "freq")
    /\ server.policy = "NONE"
    /\ OneReply("error")

\* the subcommands of OBJECT that take a key
KeySubcommands == {"refcount", "encoding", "idletime", "freq"}

\* argv[1] names one of them, in any case
TakesKey(sub) == \E name \in KeySubcommands : strcasecmp0(sub, name)

\* C11: unknown key. A subcommand that takes a key (REFCOUNT, ENCODING,
\* IDLETIME, FREQ), called with its key argument on a key the database does
\* not hold, adds exactly one reply, the null reply, under every policy; an
\* unknown subcommand or a wrong number of arguments adds exactly one error.
C11_UnknownKey ==
    last.op = "objectCommand" =>
        /\ (TakesKey(last.sub) /\ last.argc = 3 /\ db[last.key] = NULL) =>
              reply = <<NullBulk>>
        /\ ( \/ ~TakesKey(last.sub) /\ ~strcasecmp0(last.sub, "help")
             \/ TakesKey(last.sub) /\ last.argc # 3
             \/ strcasecmp0(last.sub, "help") /\ last.argc # 2 ) =>
              OneReply("error")

\* OBJECT FREQ on an absent key under an LFU policy: the null reply
C11_Witness ==
    /\ last.op = "objectCommand"
    /\ strcasecmp0(last.sub, "freq")
    /\ last.argc = 3
    /\ db[last.key] = NULL
    /\ \E k \in Keys : db[k] # NULL
    /\ PolicyLFU(server)
    /\ reply = <<NullBulk>>

(***************************************************************************)
(* Memory introspection: objectComputeSize and MEMORY USAGE.               *)
(*                                                                         *)
(* The payload of an aggregate keeps, in ptr.buf, one number per element   *)
(* in iteration order: the bytes the element's own allocations take (the   *)
(* ziplist blob of a quicklist node, the sds of a set member, the two sds  *)
(* of a hash field, the sds and the node of a sorted-set member, the bytes *)
(* of a ziplist or intset entry).                                          *)
(***************************************************************************)
MaxElems == 2

ElemSizes == {8, 24}

SizeofRobj == 16

SizeofQuicklist == 32

SizeofQuicklistNode == 32

SizeofDict == 96

SizeofDictEntry == 24

SizeofDictEntryPtr == 8

SizeofZset == 16

SizeofIntset == 8

ZiplistHeaderSize == 11

SdsHdrSize == 3

RECURSIVE SumFirst(_, _)
\* the sum of the first n numbers of s
SumFirst(s, n) == IF n = 0 THEN 0 ELSE s[n] + SumFirst(s, n - 1)

Min(x, y) == IF x < y THEN x ELSE y

\* sdsAllocSize: header, bytes, unused capacity and the terminator
sdsAllocSize(p) == SdsHdrSize + sdslen(p) + sdsavail(p) + 1

\* ziplistBlobLen: the header and the entries
ziplistBlobLen(p) == ZiplistHeaderSize + SumFirst(p.buf, Len(p.buf))

\* dictSize: the entries of the table
dictSize(p) == Len(p.buf)

RECURSIVE NextPower(_, _)
NextPower(size, i) == IF i >= size THEN i ELSE NextPower(size, 2 * i)

\* dictSlots: no table before the first entry, then a power of two from 4
dictSlots(p) == IF dictSize(p) = 0 THEN 0 ELSE NextPower(dictSize(p), 4)

\* asize += (double)elesize/samples*count, back in a size_t
AddAverage(asize, elesize, samples, count) == asize + (elesize * count) \div samples

\* the loops over a dict or a skiplist: while an element is left and
\* samples < sample_size
SampledEntries(p, sample_size) == Min(Len(p.buf), sample_size)

\* the do-while over the nodes of a quicklist with a head: the head, then the
\* next nodes while samples < sample_size
SampledNodes(p, sample_size) ==
    IF sample_size <= 1 THEN 1 ELSE Min(Len(p.buf), sample_size)

\* the result of objectComputeSize: the size, or how the call ended instead
Size(n) == [size |-> n, fault |-> "", ub |-> FALSE]

\* serverPanic
SizeFault(why) == [size |-> 0, fault |-> why, ub |-> FALSE]

\* a read through a null pointer: whatever the build makes of it
SizeUndefined(why) == [size |-> 0, fault |-> why, ub |-> TRUE]

\* OBJ_LIST / OBJ_ENCODING_QUICKLIST: node = ql->head is read before it is tested
quicklistSize(o, sample_size) ==
    IF Len(o.ptr.buf) = 0 THEN SizeUndefined("node->zl with node = NULL")
    ELSE LET samples == SampledNodes(o.ptr, sample_size)
             elesize == samples * SizeofQuicklistNode + SumFirst(o.ptr.buf, samples)
         IN  Size(AddAverage(SizeofRobj + SizeofQuicklist, elesize, samples, Len(o.ptr.buf)))

\* OBJ_SET / OBJ_ENCODING_HT
setDictSize(o, sample_size) ==
    LET samples == SampledEntries(o.ptr, sample_size)
        elesize == samples * SizeofDictEntry + SumFirst(o.ptr.buf, samples)
        asize == SizeofRobj + SizeofDict + SizeofDictEntryPtr * dictSlots(o.ptr)
    IN  Size(IF samples # 0 THEN AddAverage(asize, elesize, samples, dictSize(o.ptr))
             ELSE asize)

\* OBJ_ZSET / OBJ_ENCODING_SKIPLIST
zsetSkiplistSize(o, sample_size) ==
    LET samples == SampledEntries(o.ptr, sample_size)
        elesize == samples * SizeofDictEntry + SumFirst(o.ptr.buf, samples)
        asize == SizeofRobj + SizeofZset + SizeofDictEntryPtr * dictSlots(o.ptr)
    IN  Size(IF samples # 0 THEN AddAverage(asize, elesize, samples, dictSize(o.ptr))
             ELSE asize)

\* OBJ_HASH / OBJ_ENCODING_HT
hashDictSize(o, sample_size) ==
    LET samples == SampledEntries(o.ptr, sample_size)
        elesize == SumFirst(o.ptr.buf, samples) + samples * SizeofDictEntry
        asize == SizeofRobj + SizeofDict + SizeofDictEntryPtr * dictSlots(o.ptr)
    IN  Size(IF samples # 0 THEN AddAverage(asize, elesize, samples, dictSize(o.ptr))
             ELSE asize)

\* is->encoding * is->length: entries of two bytes
intsetSize(o) == SizeofRobj + SizeofIntset + 2 * Len(o.ptr.buf)

objectComputeSize(o, sample_size) ==
    CASE o.type = "STRING" ->
           CASE o.encoding = "INT" -> Size(SizeofRobj)
             [] o.encoding = "RAW" -> Size(sdsAllocSize(o.ptr) + SizeofRobj)
             [] o.encoding = "EMBSTR" -> Size(sdslen(o.ptr) + 2 + SizeofRobj)
             [] OTHER -> SizeFault("Unknown string encoding")
      [] o.type = "LIST" ->
           CASE o.encoding = "QUICKLIST" -> quicklistSize(o, sample_size)
             [] o.encoding = "ZIPLIST" -> Size(SizeofRobj + ziplistBlobLen(o.ptr))
             [] OTHER -> SizeFault("Unknown list encoding")
      [] o.type = "SET" ->
           CASE o.encoding = "HT" -> setDictSize(o, sample_size)
             [] o.encoding = "INTSET" -> Size(intsetSize(o))
             [] OTHER -> SizeFault("Unknown set encoding")
      [] o.type = "ZSET" ->
           CASE o.encoding = "ZIPLIST" -> Size(SizeofRobj + ziplistBlobLen(o.ptr))
             [] o.encoding = "SKIPLIST" -> zsetSkiplistSize(o, sample_size)
             [] OTHER -> SizeFault("Unknown sorted set encoding")
      [] o.type = "HASH" ->
           CASE o.encoding = "ZIPLIST" -> Size(SizeofRobj + ziplistBlobLen(o.ptr))
             [] o.encoding = "HT" -> hashDictSize(o, sample_size)
             [] OTHER -> SizeFault("Unknown hash encoding")
      [] o.type = "MODULE" -> Size(0)
      [] OTHER -> SizeFault("Unknown object type")

\* tolower, on the letters of Alphabet
tolower(c) == IF c = "S" THEN "s" ELSE c

\* strcasecmp(a, b) == 0 on two byte strings
strcasecmpBytes0(a, b) ==
    [i \in 1..Len(a) |-> tolower(a[i])] = [i \in 1..Len(b) |-> tolower(b[i])]

SamplesWord == <<"s", "a", "m", "p", "l", "e", "s">>

SyntaxErr == Reply("error", 0, "syntax error")

\* getLongLongFromObjectOrReply on an argument, which is a string of bytes
getLongLongFromObjectOrReply(bytes) ==
    LET r == string2ll(bytes) IN
    IF r.ok THEN [ok |-> TRUE, val |-> r.val, reply |-> <<>>]
    ELSE [ok |-> FALSE, val |-> 0,
          reply |-> <<Reply("error", 0, "value is not an integer or out of range")>>]

\* the value MEMORY USAGE passes on for SAMPLES <count>
memoryUsageSamples_keepZero(count) == count

memoryUsageSamples(count) == IF count = 0 THEN LLONG_MAX ELSE count

RECURSIVE memoryUsageOptions(_, _, _)
\* the loop over argv[3..]: opts[i] is argv[i + 2]
memoryUsageOptions(opts, i, samples) ==
    IF i > Len(opts) THEN [ok |-> TRUE, val |-> samples, reply |-> <<>>]
    ELSE IF strcasecmpBytes0(opts[i], SamplesWord) /\ i + 1 <= Len(opts)
         THEN LET r == getLongLongFromObjectOrReply(opts[i + 1]) IN
              IF ~r.ok THEN r
              ELSE IF r.val < 0 THEN [ok |-> FALSE, val |-> 0, reply |-> <<SyntaxErr>>]
              ELSE memoryUsageOptions(opts, i + 2, memoryUsageSamples(r.val))
         ELSE [ok |-> FALSE, val |-> 0, reply |-> <<SyntaxErr>>]

\* the sds of a key name
KeySds(key) == sdsnewlen(IF key = "k1" THEN <<"k", "1">> ELSE <<"k", "2">>)

\* MEMORY USAGE <key> [SAMPLES <count>]
memoryUsage(m, d, key, opts) ==
    LET p == memoryUsageOptions(opts, 1, OBJ_COMPUTE_SIZE_DEF_SAMPLES)
        o == objectCommandLookup(d, key)
        miss == objectCommandLookupOrReply(d, key, NullBulk)
    IN  IF ~p.ok THEN [reply |-> p.reply, fault |-> "", ub |-> FALSE]
        ELSE IF o = NULL THEN [reply |-> miss, fault |-> "", ub |-> FALSE]
        ELSE LET r == objectComputeSize(m.obj[o], p.val) IN
             IF r.fault # "" THEN [reply |-> <<>>, fault |-> r.fault, ub |-> r.ub]
             ELSE [reply |-> <<Reply("integer",
                                     r.size + sdsAllocSize(KeySds(key)) + SizeofDictEntry,
                                     "")>>,
                   fault |-> "", ub |-> FALSE]

\* the replies memoryCommand adds for argv[1] = sub, argv[2] = key (when
\* argc >= 3) and argv[3..] = opts
memoryCommand(m, d, sub, argc, key, opts) ==
    IF strcasecmp0(sub, "usage") /\ argc >= 3 THEN memoryUsage(m, d, key, opts)
    ELSE IF strcasecmp0(sub, "stats") /\ argc = 2
    THEN [reply |-> <<Reply("multibulk", 0, "stats")>>, fault |-> "", ub |-> FALSE]
    ELSE IF strcasecmp0(sub, "malloc-stats") /\ argc = 2
    THEN [reply |-> <<Reply("bulk", 0, "malloc-stats")>>, fault |-> "", ub |-> FALSE]
    ELSE IF strcasecmp0(sub, "doctor") /\ argc = 2
    THEN [reply |-> <<Reply("bulk", 0, "doctor")>>, fault |-> "", ub |-> FALSE]
    ELSE IF strcasecmp0(sub, "purge") /\ argc = 2
    THEN [reply |-> <<Reply("status", 0, "OK")>>, fault |-> "", ub |-> FALSE]
    ELSE IF strcasecmp0(sub, "help") /\ argc = 2
    THEN [reply |-> <<Reply("multibulk", 5, "")>> \o [i \in 1..5 |-> Reply("bulk", i, "help")],
          fault |-> "", ub |-> FALSE]
    ELSE [reply |-> <<Reply("error", 0, "Syntax error. Try MEMORY HELP")>>, fault |-> "", ub |-> FALSE]

\* an element is added to an aggregate (the commands of the type: push, add,
\* set), with the bytes its allocations take
AddElement ==
    \E a \in HeapAddr, e \in ElemSizes :
        /\ Running
        /\ Accessible(a)
        /\ owned[a] > 0
        /\ mem.obj[a].type \in {"LIST", "SET", "ZSET", "HASH"}
        /\ Len(mem.obj[a].ptr.buf) < MaxElems
        /\ mem' = [mem EXCEPT !.obj[a].ptr.buf = Append(@, e)]
        /\ hist' = Record(hist, mem', "addElement", a, FALSE)
        /\ last' = [LastNone EXCEPT !.op = "addElement", !.a = a, !.val = e]
        /\ UNCHANGED <<threads, server, owned, db, reply>>

MemSubInputs == {"usage", "USAGE", "stats", "malloc-stats", "doctor", "purge", "help", "bogus"}

\* argv[3..] of MEMORY USAGE
MemOptInputs ==
    { <<>>,
      <<SamplesWord, <<"0">>>>,
      <<<<"S", "a", "m", "p", "l", "e", "s">>, <<"1">>>>,
      <<SamplesWord, ll2string(MaxElems)>>,
      <<SamplesWord, <<"-", "1">>>>,
      <<SamplesWord, <<"x">>>>,
      <<SamplesWord>>,
      <<SamplesWord, <<"1">>, SamplesWord, <<"0">>>> }

\* what a call that read through a null pointer may reply, if it returns
GarbageSizes == {0, LLONG_MAX}

\* MEMORY <sub> [<key> [<opts>]]: key = "" stands for a command of two words
MemoryCommand ==
    \E sub \in MemSubInputs, key \in Keys \cup {""}, opts \in MemOptInputs :
        LET argc == IF key = "" THEN 2 ELSE 3 + Len(opts)
            r == memoryCommand(mem, db, sub, argc, key, opts)
        IN  /\ Running
            /\ (key = "" \/ ~strcasecmp0(sub, "usage")) => opts = <<>>
            /\ \A k \in Keys : db[k] # NULL => mem.obj[db[k]].st = "live"
            /\ \/ /\ r.fault = ""
                  /\ reply' = r.reply
                  /\ mem' = mem
               \/ /\ r.fault # ""
                  /\ reply' = <<>>
                  /\ mem' = [mem EXCEPT !.panic = r.fault]
               \/ /\ r.ub
                  /\ \E g \in GarbageSizes : reply' = <<Reply("integer", g, "")>>
                  /\ mem' = mem
            /\ last' = [LastNone EXCEPT !.op = "memoryCommand", !.sub = sub, !.argc = argc,
                                        !.key = key, !.opts = opts,
                                        !.a = IF key = "" THEN NULL ELSE db[key]]
            /\ UNCHANGED <<threads, server, owned, hist, db>>

\* memory introspection: one aggregate or string, filled, stored under a key,
\* then measured
MemAggregates ==
    {"createQuicklistObject", "createSetObject", "createHashObject", "createZsetObject",
     "createIntsetObject", "createZsetZiplistObject"}

MemStrInputs == { <<"7">>, Rep("a", OBJ_ENCODING_EMBSTR_SIZE_LIMIT + 1) }

NextMemory ==
    \/ /\ FreshHeap
       /\ \/ CreateAggregate(MemAggregates)
          \/ CreateStringObject(MemStrInputs)
    \/ AddElement
    \/ DbAdd
    \/ MemoryCommand

SpecMemory == InitWith({DefaultServer}) /\ [][NextMemory]_vars

(***************************************************************************)
(* Memory introspection (checked under SpecMemory).                        *)
(***************************************************************************)
\* the encodings objectComputeSize samples
SampledEncoding(o) ==
    \/ o.type = "LIST" /\ o.encoding = "QUICKLIST"
    \/ o.type \in {"SET", "HASH"} /\ o.encoding = "HT"
    \/ o.type = "ZSET" /\ o.encoding = "SKIPLIST"

\* a live aggregate in one of them, with an element at least
SampledAggregate(a) ==
    /\ a \in HeapAddr
    /\ mem.obj[a].st = "live"
    /\ SampledEncoding(mem.obj[a])
    /\ Len(mem.obj[a].ptr.buf) >= 1

\* the estimate when every element is sampled
FullScan(o) == objectComputeSize(o, Len(o.ptr.buf))

\* MEMORY USAGE <key> SAMPLES 0 was the last command, on a sampled aggregate
UsageSamplesZero ==
    /\ last.op = "memoryCommand"
    /\ strcasecmp0(last.sub, "usage")
    /\ last.opts = <<SamplesWord, <<"0">>>>
    /\ last.a # NULL
    /\ SampledAggregate(last.a)

\* its reply is the full-scan estimate plus the key's sds and one dictEntry
RepliesFullScan ==
    reply = <<Reply("integer",
                    FullScan(mem.obj[last.a]).size + sdsAllocSize(KeySds(last.key))
                        + SizeofDictEntry,
                    "")>>

\* C12 as stated: objectComputeSize(o, 0) on an HT, QUICKLIST or SKIPLIST
\* aggregate averages over every element, so it equals the estimate with
\* samples >= the element count; and MEMORY USAGE <key> SAMPLES 0 replies
\* that estimate plus the key and entry overhead.
C12_ZeroSamplesMeansAll ==
    /\ \A a \in HeapAddr :
          SampledAggregate(a) => objectComputeSize(mem.obj[a], 0) = FullScan(mem.obj[a])
    /\ UsageSamplesZero => RepliesFullScan

\* C12, amended: MEMORY USAGE <key> SAMPLES 0 replies the full-scan estimate
\* plus the key and entry overhead, because the command passes LLONG_MAX for
\* 0. objectComputeSize(o, 0) itself samples no element of an HT or SKIPLIST
\* aggregate, so its result is the full-scan estimate less the bytes of all
\* the elements, and on a QUICKLIST it samples the head node only, as with
\* sample_size 1.
C12_ZeroSamplesInCommandOnly ==
    /\ UsageSamplesZero => RepliesFullScan
    /\ \A a \in HeapAddr :
          SampledAggregate(a) =>
              LET o == mem.obj[a]
                  n == Len(o.ptr.buf)
              IN  IF o.encoding = "QUICKLIST"
                  THEN objectComputeSize(o, 0) = objectComputeSize(o, 1)
                  ELSE /\ objectComputeSize(o, 0).fault = ""
                       /\ objectComputeSize(o, 0).size + SumFirst(o.ptr.buf, n)
                              + n * SizeofDictEntry
                          = FullScan(o).size

\* SAMPLES 0 on a set of two members of different sizes
C12_Witness ==
    /\ UsageSamplesZero
    /\ mem.obj[last.a].type = "SET"
    /\ Len(mem.obj[last.a].ptr.buf) = 2
    /\ mem.obj[last.a].ptr.buf[1] # mem.obj[last.a].ptr.buf[2]
    /\ RepliesFullScan
    /\ objectComputeSize(mem.obj[last.a], 1) # FullScan(mem.obj[last.a])

(***************************************************************************)
(* MEMORY DOCTOR: getMemoryDoctorReport.                                   *)
(*                                                                         *)
(* The overhead data is what getMemoryOverheadData() hands over: bytes as  *)
(* they are, the fragmentation ratio in thousandths.  The totals used stay *)
(* below 2^23 and the peaks below 2^24, where (float)peak / total compares *)
(* with 1.5 as the exact quotient does.                                    *)
(***************************************************************************)
MaxClients == 2

EmptyLimit == 1024 * 1024 * 5

ClientBufLimit == 1024 * 200

SlaveBufLimit == 1024 * 1024 * 10

\* the paragraphs of the report, in the order the sds is put together
NoIssuesReport == <<"no issues">>

EmptyReport == <<"empty">>

IssuesReport(big_peak, high_frag, big_slave_buf, big_client_buf) ==
    <<"issues">>
    \o (IF big_peak THEN <<"big_peak">> ELSE <<>>)
    \o (IF high_frag THEN <<"high_frag">> ELSE <<>>)
    \o (IF big_slave_buf THEN <<"big_slave_buf">> ELSE <<>>)
    \o (IF big_client_buf THEN <<"big_client_buf">> ELSE <<>>)
    \o <<"keep you safe">>

\* ((float)peak_allocated / total_allocated) > 1.5
PeakRatioAbove(mh) == 2 * mh.peak_allocated > 3 * mh.total_allocated

\* fragmentation > 1.4
FragmentationAbove(mh) == mh.fragmentation > 1400

\* divzero: what the build makes of clients_normal / 0, a trap or the quotient 0
getMemoryDoctorReport(mh, clients, slaves, divzero) ==
    IF mh.total_allocated < EmptyLimit THEN [report |-> EmptyReport, fault |-> ""]
    ELSE LET big_peak == PeakRatioAbove(mh)
             high_frag == FragmentationAbove(mh)
             numslaves == slaves
             numclients == clients - numslaves
             quotient == IF numclients = 0 THEN 0 ELSE mh.clients_normal \div numclients
             big_client_buf == quotient > ClientBufLimit
             big_slave_buf == numslaves > 0 /\ mh.clients_slaves \div numslaves > SlaveBufLimit
             num_reports == Cardinality({ i \in 1..4 :
                                <<big_peak, high_frag, big_client_buf, big_slave_buf>>[i] })
         IN  IF numclients = 0 /\ divzero = "trap"
             THEN [report |-> <<>>, fault |-> "SIGFPE"]
             ELSE [report |-> IF num_reports = 0 THEN NoIssuesReport
                              ELSE IssuesReport(big_peak, high_frag, big_slave_buf,
                                                big_client_buf),
                   fault |-> ""]

TotalInputs == { EmptyLimit - 1, EmptyLimit, EmptyLimit + 1024 * 1024 }

\* peaks at the total, at one and a half times the total and just above
PeakInputs(total) == { total, (3 * total) \div 2, (3 * total) \div 2 + 1 }

FragmentationInputs == { 1400, 1401 }

ClientBytesInputs == { ClientBufLimit + 1, 2 * ClientBufLimit + 1, 2 * ClientBufLimit + 2 }

SlaveBytesInputs == { SlaveBufLimit + 1, 2 * SlaveBufLimit + 2 }

DivZeroOutcomes == { "trap", "zero" }

\* memoryCommand, the "doctor" branch: the report goes out as one bulk reply.
\* server.slaves is a sublist of server.clients.
MemoryDoctor ==
    /\ Running
    /\ \E total \in TotalInputs, frag \in FragmentationInputs,
          cn \in ClientBytesInputs, cs \in SlaveBytesInputs,
          clients \in 0..MaxClients, divzero \in DivZeroOutcomes :
          \E peak \in PeakInputs(total), slaves \in 0..clients :
             LET mh == [total_allocated |-> total, peak_allocated |-> peak,
                        fragmentation |-> frag, clients_normal |-> cn,
                        clients_slaves |-> cs]
                 r == getMemoryDoctorReport(mh, clients, slaves, divzero)
             IN  /\ last' = [LastNone EXCEPT !.op = "doctor", !.mh = mh,
                                              !.a = clients, !.b = slaves]
                 /\ IF r.fault # ""
                    THEN /\ mem' = Panic(mem, r.fault)
                         /\ reply' = <<>>
                    ELSE /\ mem' = mem
                         /\ reply' = <<Reply("bulk", 0, r.report)>>
    /\ UNCHANGED <<threads, server, owned, hist, db>>

NextDoctor == MemoryDoctor

SpecDoctor == InitWith({DefaultServer}) /\ [][NextDoctor]_vars

(***************************************************************************)
(* MEMORY DOCTOR claims.                                                   *)
(***************************************************************************)
DoctorRan == last.op = "doctor"

\* the average bytes per connection of a kind, as a whole number of bytes;
\* zero when there is no connection of the kind
AverageBytes(bytes, n) == IF n = 0 THEN 0 ELSE bytes \div n

\* the issues the rules select for the data and the counts the doctor was given
SelectedIssues ==
    LET mh == last.mh
        numslaves == last.b
        numclients == last.a - last.b
    IN  [big_peak |-> 2 * mh.peak_allocated > 3 * mh.total_allocated,
         high_frag |-> mh.fragmentation > 1400,
         big_slave_buf |-> numslaves > 0
                           /\ AverageBytes(mh.clients_slaves, numslaves) > 1024 * 1024 * 10,
         big_client_buf |-> AverageBytes(mh.clients_normal, numclients) > 1024 * 200]

\* C13: for every overhead report and every client and slave count the doctor
\* terminates with exactly one of three outputs: the "empty" notice alone when
\* the total is below 5 MiB; otherwise the issue list holding exactly the rules
\* that fire (big_peak, high_frag, big_slave_buf, big_client_buf); otherwise,
\* when no rule fires, the "no issues" message.
C13_DoctorRuleSelection ==
    DoctorRan =>
        /\ Running
        /\ Len(reply) = 1
        /\ reply[1].type = "bulk"
        /\ LET i == SelectedIssues
               none == ~(i.big_peak \/ i.high_frag \/ i.big_slave_buf \/ i.big_client_buf)
           IN  reply[1].text =
                   IF last.mh.total_allocated < 1024 * 1024 * 5 THEN <<"empty">>
                   ELSE IF none THEN <<"no issues">>
                   ELSE IssuesReport(i.big_peak, i.high_frag, i.big_slave_buf,
                                     i.big_client_buf)

\* the same, for the calls made while at least one connection is not a slave
C13_DoctorRulesWithNormalClients ==
    (DoctorRan /\ last.a - last.b > 0) => C13_DoctorRuleSelection

\* the doctor was asked while every connection is a slave and the total is
\* at least 5 MiB
C13_Witness ==
    /\ DoctorRan
    /\ last.a = last.b
    /\ last.mh.total_allocated >= 1024 * 1024 * 5
    /\ ~Running

(***************************************************************************)
(* Threads: the command thread and the background threads call             *)
(* incrRefCount and decrRefCount with no lock, one memory access per step. *)
(* The hand-off of a value to a background thread is the one the           *)
(* concurrency section of the specification describes (lazy free, bio).    *)
(***************************************************************************)
ThreadShared == { SharedAddr(7) }

ThreadStrInputs == { Rep("a", 45) }

MainIdle == threads[MainThread].pc = "idle"

InIncr(th) == th.pc \in {"incr", "incr_load", "incr_store"}

InDecr(th) == th.pc \in {"decr", "decr_le0", "decr_shared", "decr_load", "decr_store"}

\* a thread enters incrRefCount(o) or decrRefCount(o): any thread on a value of
\* the registry, the command thread on a value it holds a reference to, a
\* background thread only decrRefCount on a value handed to it
ThreadCall(t) ==
    /\ Running
    /\ threads[t].pc = "idle"
    /\ \E op \in {"incr", "decr"}, o \in Addr :
          /\ \/ o \in ThreadShared
             \/ t = MainThread /\ o \in HeapAddr /\ mem.obj[o].st = "live" /\ owned[o] > 0
                  /\ (op = "incr" => owned[o] < MaxRef)
             \/ t # MainThread /\ op = "decr" /\ o \in threads[t].jobs
          /\ threads' = [threads EXCEPT ![t].pc = op, ![t].o = o, ![t].jobs = @ \ {o}]
          /\ owned' = IF t = MainThread /\ o \in HeapAddr
                       THEN IF op = "incr" THEN Take(owned, o) ELSE Drop(owned, o)
                       ELSE owned
          /\ last' = [LastNone EXCEPT !.op = "threads"]
    /\ UNCHANGED <<server, mem, hist, db, reply>>

\* a thread executes its next memory access
ThreadStep(t) ==
    /\ Running
    /\ threads[t].pc # "idle"
    /\ LET r == IF InIncr(threads[t]) THEN incrRefCountStep(mem, threads[t])
                 ELSE decrRefCountStep(mem, threads[t])
       IN  /\ mem' = r.m
           /\ threads' = [threads EXCEPT ![t] = r.th]
           /\ hist' = Record(hist, r.m, IF InIncr(threads[t]) THEN "incrRefCount"
                                         ELSE "decrRefCount", threads[t].o, TRUE)
    /\ last' = [LastNone EXCEPT !.op = "threads"]
    /\ UNCHANGED <<server, owned, db, reply>>

\* the command thread passes its only reference to a value nothing else
\* refers to on to a background thread
HandOff(t) ==
    /\ Running
    /\ MainIdle
    /\ t # MainThread
    /\ \E o \in HeapAddr :
          /\ mem.obj[o].st = "live"
          /\ owned[o] = 1
          /\ mem.obj[o].refcount = 1
          /\ owned' = [owned EXCEPT ![o] = 0]
          /\ threads' = [threads EXCEPT ![t].jobs = @ \cup {o}, ![t].handed = @ \cup {o}]
    /\ last' = [LastNone EXCEPT !.op = "threads"]
    /\ UNCHANGED <<server, mem, hist, db, reply>>

NextThreads ==
    \/ MainIdle /\ FreshHeap /\ CreateStringObject(ThreadStrInputs)
    \/ \E t \in Threads : ThreadCall(t)
    \/ \E t \in Threads : ThreadStep(t)
    \/ \E t \in Threads : HandOff(t)

SpecThreads == InitWith({DefaultServer}) /\ [][NextThreads]_vars

TryEncodeCall == last'.op = "tryObjectEncoding"

\* C15: tryObjectEncoding considers only strings. Called on a value whose type
\* is not OBJ_STRING (list, set, hash, sorted set, module) it returns the same
\* header with type, encoding, payload and refcount unchanged, and does not
\* fail.
C15_NonStringPassThrough ==
    [][(TryEncodeCall /\ mem.obj[last'.a].type # "STRING") =>
          /\ mem'.panic = ""
          /\ last'.ret = last'.a
          /\ mem'.obj[last'.a] = mem.obj[last'.a]]_vars

\* C15, as the code has it: called on a value whose type is not OBJ_STRING,
\* tryObjectEncoding fails its assertion o->type == OBJ_STRING; it returns
\* nothing, and no header is modified or freed.
C15_NonStringAsserts ==
    [][(TryEncodeCall /\ mem.obj[last'.a].type # "STRING") =>
          /\ mem'.panic = "o->type == OBJ_STRING"
          /\ last'.ret = NULL
          /\ mem'.obj = mem.obj
          /\ mem'.hdrFrees = mem.hdrFrees /\ mem'.ptrFrees = mem.ptrFrees]_vars

\* tryObjectEncoding was called on a hash of one reference
C15_Witness ==
    /\ last.op = "tryObjectEncoding"
    /\ last.a \in HeapAddr
    /\ mem.obj[last.a].type = "HASH"
    /\ last.rc0 = 1
    /\ ~Running

\* the value the call is made on, before the call
Arg == mem.obj[last'.a]

\* the call is made on a RAW or EMBSTR string of one reference and at most 20
\* bytes that string2l reads as a long
ParsesAsLong ==
    /\ Arg.type = "STRING" /\ Arg.encoding \in {"RAW", "EMBSTR"}
    /\ Arg.refcount = 1
    /\ Len(Arg.ptr.buf) <= 20
    /\ string2l(Arg.ptr.buf, server.lp64).ok

ParsedLong == string2l(Arg.ptr.buf, server.lp64).val

\* shared integers are enabled, and the value is one of them
SharedIntegerFor(v) ==
    /\ server.maxmemory = 0 \/ server.policy \notin {"LRU", "LFU"}
    /\ v >= 0 /\ v < 10000

\* C16: the integer step of tryObjectEncoding. For a RAW or EMBSTR string of
\* refcount 1 and at most 20 bytes that parses as a long v: when shared
\* integers are enabled and 0 <= v < OBJ_SHARED_INTEGERS, the original is
\* released by decrRefCount and shared.integers[v] is returned; otherwise the
\* same header is returned with the INT encoding and v as its payload, its RAW
\* sds (if any) freed exactly once, and its refcount unchanged. A string of
\* refcount above 1 is returned unchanged.
C16_IntegerStep ==
    [][TryEncodeCall =>
          /\ (ParsesAsLong /\ SharedIntegerFor(ParsedLong)) =>
                /\ mem'.panic = ""
                /\ last'.ret = SharedAddr(ParsedLong)
                /\ mem'.obj[last'.ret] = mem.obj[last'.ret]
                /\ mem'.obj[last'.ret].refcount = OBJ_SHARED_REFCOUNT
                /\ mem'.obj[last'.a].st = "freed"
                /\ mem'.hdrFrees[last'.a] = mem.hdrFrees[last'.a] + 1
                /\ mem'.ptrFrees[last'.a] =
                       mem.ptrFrees[last'.a] + (IF Arg.encoding = "RAW" THEN 1 ELSE 0)
          /\ (ParsesAsLong /\ ~SharedIntegerFor(ParsedLong)) =>
                /\ mem'.panic = ""
                /\ last'.ret = last'.a
                /\ mem'.obj[last'.a] =
                       [Arg EXCEPT !.encoding = "INT", !.ptr = LongPtr(ParsedLong)]
                /\ mem'.hdrFrees = mem.hdrFrees
                /\ mem'.ptrFrees[last'.a] =
                       mem.ptrFrees[last'.a] + (IF Arg.encoding = "RAW" THEN 1 ELSE 0)
          /\ (Arg.type = "STRING" /\ Arg.refcount > 1) =>
                /\ last'.ret = last'.a
                /\ mem' = mem]_vars

\* a RAW string of one reference was replaced by a value of the registry, and
\* its header and its sds were freed
C16_Witness ==
    /\ last.op = "tryObjectEncoding"
    /\ last.ret \in SharedAddrs
    /\ last.a \in HeapAddr
    /\ last.rc0 = 1
    /\ hist[last.a].ctor = "createRawStringObject"
    /\ mem.obj[last.a].st = "freed"
    /\ mem.ptrFrees[last.a] = 1

\* scenario S3: the call is made on what createStringObject("12345", 5)
\* returned, untouched since, with shared integers enabled
ScenarioS3 ==
    /\ TryEncodeCall
    /\ last'.a \in HeapAddr
    /\ hist[last'.a].ctor = "createStringObject"
    /\ hist[last'.a].refOpsOnly
    /\ Arg.refcount = 1
    /\ Arg.ptr.buf = <<"1", "2", "3", "4", "5">>
    /\ server.maxmemory = 0 \/ server.policy \notin {"LRU", "LFU"}

ReleaseStrInputs == { <<"7">>, <<"1", "2", "3", "4", "5">>, <<"4", "2", "x">>, Rep("a", 45) }

ReleaseIntInputs == { 7, 12345 }

NextRelease ==
    \/ /\ FreshHeap
       /\ \/ CreateRawStringObject(ReleaseStrInputs)
          \/ CreateStringObject(ReleaseStrInputs)
          \/ CreateStringObjectFromLongLong(ReleaseIntInputs)
          \/ CreateAggregate(AggregateCtors)
    \/ IncrRefCount
    \/ DecrRefCount
    \/ ResetRefCount
    \/ TryObjectEncoding

SpecRelease == InitWith({DefaultServer}) /\ [][NextRelease]_vars

\* the step is a call decrRefCount(o)
DecrCall == last'.op = "decrRefCount"

\* the payload of the value is memory of its own: not the long of an INT
\* string, not the bytes inside the header of an EMBSTR string
OwnPayload(o) == ~(o.type = "STRING" /\ o.encoding \in {"INT", "EMBSTR"})

\* C18: the free dispatch is total over the valid pairs. decrRefCount on a
\* value of refcount 1 with any type and encoding of the table releases the
\* payload and the header and reaches no fatal path; a ZIPLIST list, as
\* createZiplistObject makes it, has its ziplist freed just as a QUICKLIST
\* list has its quicklist released.
C18_FreeDispatchTotal ==
    [][(DecrCall /\ Arg.refcount = 1 /\ Arg.encoding \in ValidEncodings(Arg.type)) =>
          /\ mem'.panic = ""
          /\ mem'.obj[last'.a].st = "freed"
          /\ mem'.hdrFrees[last'.a] = mem.hdrFrees[last'.a] + 1
          /\ mem'.ptrFrees[last'.a] =
                 mem.ptrFrees[last'.a] + (IF OwnPayload(Arg) THEN 1 ELSE 0)]_vars

\* the same, for every valid pair but the ZIPLIST list
C18_FreeDispatchButZiplistList ==
    [][(DecrCall /\ Arg.refcount = 1 /\ Arg.encoding \in ValidEncodings(Arg.type)
          /\ ~(Arg.type = "LIST" /\ Arg.encoding = "ZIPLIST")) =>
          /\ mem'.panic = ""
          /\ mem'.obj[last'.a].st = "freed"
          /\ mem'.hdrFrees[last'.a] = mem.hdrFrees[last'.a] + 1
          /\ mem'.ptrFrees[last'.a] =
                 mem.ptrFrees[last'.a] + (IF OwnPayload(Arg) THEN 1 ELSE 0)]_vars

\* decrRefCount has run on the only reference to a ZIPLIST list
C18_Witness ==
    /\ last.op = "decrRefCount"
    /\ last.a \in HeapAddr
    /\ last.rc0 = 1
    /\ hist[last.a].ctor = "createZiplistObject"
    /\ mem.panic = "Unknown list encoding type"

\* a live header whose refcount is zero or below
AtZero(m, a) == m.obj[a].st = "live" /\ m.obj[a].refcount <= 0

\* C19: decrRefCount at zero is fatal. decrRefCount on a value whose refcount
\* is <= 0 (right after resetRefCount, before any incrRefCount) panics, and
\* neither runs the free dispatch nor changes the refcount; a refcount of 0
\* comes about only through resetRefCount; and incrRefCount on a value of
\* refcount 0 brings it to refcount 1.
C19_DecrAtZeroFatal ==
    [][/\ (DecrCall /\ Arg.refcount <= 0) =>
             /\ mem'.panic = "decrRefCount against refcount <= 0"
             /\ mem'.obj = mem.obj
             /\ mem'.hdrFrees = mem.hdrFrees /\ mem'.ptrFrees = mem.ptrFrees
       /\ \A a \in Addr :
             (AtZero(mem', a) /\ ~AtZero(mem, a)) =>
                 /\ last'.op = "resetRefCount" /\ last'.a = a
                 /\ mem'.obj[a].refcount = 0
       /\ (last'.op = "incrRefCount" /\ Arg.refcount = 0) =>
             /\ mem'.panic = ""
             /\ mem'.obj[last'.a].refcount = 1]_vars

\* decrRefCount was called on a value that resetRefCount had set to 0
C19_Witness ==
    /\ last.op = "decrRefCount"
    /\ last.a \in HeapAddr
    /\ last.rc0 = 0
    /\ mem.obj[last.a].st = "live"
    /\ mem.obj[last.a].refcount = 0
    /\ mem.hdrFrees[last.a] = 0
    /\ ~Running

\* incrRefCount has taken a value from refcount 0 to refcount 1
C19_IncrFromZero ==
    /\ last.op = "incrRefCount"
    /\ last.a \in HeapAddr
    /\ last.rc0 = 0
    /\ mem.obj[last.a].refcount = 1

(***************************************************************************)
(* getDecodedObject: a string made by a constructor, perhaps made shared,  *)
(* then decoded again and again and the results released.                  *)
(***************************************************************************)
DecodeStrInputs == { <<>>, <<"1", "2", "3", "4", "5">>, Rep("a", 45) }

DecodeIntInputs == { LONG_MIN(FALSE), -1, 7, 12345, LONG_MAX(FALSE) }

\* makeObjectShared(o) on a value just created
MakeObjectShared ==
    \E a \in HeapAddr :
        /\ Running
        /\ Accessible(a)
        /\ mem' = IF mem.obj[a].refcount = 1
                  THEN [mem EXCEPT !.obj[a] = makeObjectShared(@)]
                  ELSE Panic(mem, "o->refcount == 1")
        /\ hist' = Record(hist, mem', "makeObjectShared", a, FALSE)
        /\ last' = [LastNone EXCEPT !.op = "makeObjectShared", !.a = a, !.ret = a,
                                    !.rc0 = mem.obj[a].refcount]
        /\ UNCHANGED <<threads, server, owned, db, reply>>

NextDecode ==
    \/ /\ FreshHeap
       /\ \/ CreateRawStringObject(DecodeStrInputs)
          \/ CreateStringObject(DecodeStrInputs)
          \/ CreateStringObjectFromLongLong(DecodeIntInputs)
    \/ MakeObjectShared
    \/ GetDecodedObject
    \/ DecrRefCount

SpecDecode == InitWith({DefaultServer}) /\ [][NextDecode]_vars

\* the step is a call getDecodedObject(o)
DecodeCall == last'.op = "getDecodedObject"

\* C20: getDecodedObject never modifies o. For an INT-encoded string o it
\* returns a new RAW or EMBSTR string of refcount 1 that holds the decimal
\* text of o's value, and leaves o's encoding, payload and refcount as they
\* were; for a RAW or EMBSTR string o it returns o itself, encoding and payload
\* unchanged, the refcount raised by exactly one (or left at
\* OBJ_SHARED_REFCOUNT). The result is always RAW or EMBSTR.
C20_DecodedViewFrame ==
    [][(DecodeCall /\ Arg.type = "STRING") =>
          /\ mem'.panic = ""
          /\ mem'.obj[last'.ret].st = "live"
          /\ mem'.obj[last'.ret].type = "STRING"
          /\ mem'.obj[last'.ret].encoding \in {"RAW", "EMBSTR"}
          /\ Arg.encoding = "INT" =>
                /\ last'.ret # last'.a
                /\ mem.obj[last'.ret].st = "unalloc"
                /\ mem'.obj[last'.ret].refcount = 1
                /\ mem'.obj[last'.ret].ptr.buf = ll2string(Arg.ptr.num)
                /\ string2ll(mem'.obj[last'.ret].ptr.buf) = [ok |-> TRUE, val |-> Arg.ptr.num]
                /\ mem'.obj[last'.a] = Arg
          /\ Arg.encoding \in {"RAW", "EMBSTR"} =>
                /\ last'.ret = last'.a
                /\ mem'.obj[last'.a] =
                       [Arg EXCEPT !.refcount = IF @ = OBJ_SHARED_REFCOUNT THEN @ ELSE @ + 1]
          /\ \A x \in Addr \ {last'.a, last'.ret} : mem'.obj[x] = mem.obj[x]
          /\ mem'.hdrFrees = mem.hdrFrees /\ mem'.ptrFrees = mem.ptrFrees]_vars

\* getDecodedObject has returned a new string for an INT-encoded value of the
\* heap, which is as it was
C20_Witness ==
    /\ last.op = "getDecodedObject"
    /\ last.a \in HeapAddr /\ last.ret \in HeapAddr
    /\ last.ret # last.a
    /\ mem.obj[last.a].encoding = "INT"
    /\ mem.obj[last.a].refcount = last.rc0
    /\ mem.obj[last.ret].encoding = "EMBSTR"
    /\ mem.obj[last.ret].refcount = 1

\* getDecodedObject has returned a RAW string of the shared refcount as it is
C20_SharedStringDecoded ==
    /\ last.op = "getDecodedObject"
    /\ last.ret = last.a
    /\ last.rc0 = OBJ_SHARED_REFCOUNT
    /\ mem.obj[last.a].encoding = "RAW"

(***************************************************************************)
(* Immortality: one constructor call, then every sequence of incrRefCount  *)
(* (single calls and long runs), decrRefCount, resetRefCount and           *)
(* tryObjectEncoding.                                                      *)
(***************************************************************************)
ImmortalStrInputs == { <<"7">>, Rep("a", 45) }

NextImmortal ==
    \/ /\ FreshHeap
       /\ \/ CreateStringObject(ImmortalStrInputs)
          \/ CreateStringObjectFromLongLong(RefIntInputs)
    \/ IncrRefCount
    \/ DecrRefCount
    \/ IncrRefCountMany
    \/ DecrRefCountMany
    \/ (\A a \in HeapAddr : owned[a] <= MaxRef) /\ ResetRefCount
    \/ TryObjectEncoding

SpecImmortal == InitWith({DefaultServer}) /\ [][NextImmortal]_vars

\* made shared at startup: a value of the registry (createSharedObjects)
MadeSharedAtStartup(a) == hist[a].ctor = "createSharedObjects"

\* C21: immortality is exactly registry membership. In every state reachable
\* by constructors, incrRefCount, decrRefCount, resetRefCount and
\* tryObjectEncoding, a value has the refcount OBJ_SHARED_REFCOUNT if and only
\* if it was made shared at startup: no run of incrRefCount calls brings an
\* ordinary value to OBJ_SHARED_REFCOUNT, and resetRefCount never moves a value
\* of the registry off it.
C21_ImmortalIffRegistry ==
    \A a \in Addr :
        /\ MadeSharedAtStartup(a) =>
              mem.obj[a].st = "live" /\ mem.obj[a].refcount = OBJ_SHARED_REFCOUNT
        /\ (mem.obj[a].st = "live" /\ mem.obj[a].refcount = OBJ_SHARED_REFCOUNT) =>
              MadeSharedAtStartup(a)

\* the two ways the refcount of a value crosses OBJ_SHARED_REFCOUNT: an
\* ordinary value reaches it only by an incrRefCount, and a value of the
\* registry leaves it only by a resetRefCount
C21_OnlyIncrAndReset ==
    [][\A a \in Addr :
          /\ (a \in HeapAddr /\ mem.obj[a].refcount # OBJ_SHARED_REFCOUNT
                /\ mem'.obj[a].refcount = OBJ_SHARED_REFCOUNT) =>
                last'.op = "incrRefCount" /\ last'.a = a
          /\ (a \in SharedAddrs /\ mem.obj[a].refcount = OBJ_SHARED_REFCOUNT
                /\ mem'.obj[a] # mem.obj[a]) =>
                last'.op = "resetRefCount" /\ last'.a = a]_vars

\* a run of incrRefCount calls has brought an ordinary value to the shared
\* refcount
C21_Saturated ==
    \E a \in HeapAddr :
        /\ mem.obj[a].st = "live"
        /\ mem.obj[a].refcount = OBJ_SHARED_REFCOUNT
        /\ hist[a].refOpsOnly

\* resetRefCount has set a value of the registry to refcount 0
C21_RegistryReset ==
    /\ last.op = "resetRefCount"
    /\ last.a \in SharedAddrs
    /\ last.rc0 = OBJ_SHARED_REFCOUNT
    /\ mem.obj[last.a].refcount = 0

(***************************************************************************)
(* objectComputeSize on empty aggregates (checked under SpecMemory).       *)
(***************************************************************************)
SampleSizes == { 0, 1, OBJ_COMPUTE_SIZE_DEF_SAMPLES, LLONG_MAX }

Aggregate(o) == o.type \in {"LIST", "SET", "ZSET", "HASH"}

\* the header and the bookkeeping of the empty container
EmptySize(o) ==
    CASE o.encoding = "QUICKLIST" -> SizeofRobj + SizeofQuicklist
      [] o.encoding = "HT" -> SizeofRobj + SizeofDict
      [] o.encoding = "SKIPLIST" -> SizeofRobj + SizeofZset
      [] o.encoding = "INTSET" -> SizeofRobj + SizeofIntset
      [] o.encoding = "ZIPLIST" -> SizeofRobj + ZiplistHeaderSize

\* objectComputeSize(o, n) returns a size, and for an empty aggregate the size
\* of the header and the empty container
SizeTotalOn(o, n) ==
    LET r == objectComputeSize(o, n) IN
    /\ r.fault = ""
    /\ ~r.ub
    /\ (Aggregate(o) /\ Len(o.ptr.buf) = 0) => r.size = EmptySize(o)

\* MEMORY USAGE <key> [SAMPLES <count>] was the last command, on a key that
\* holds a value, with well-formed options
UsageOnValue ==
    /\ last.op = "memoryCommand"
    /\ strcasecmp0(last.sub, "usage")
    /\ last.a # NULL
    /\ memoryUsageOptions(last.opts, 1, OBJ_COMPUTE_SIZE_DEF_SAMPLES).ok

\* C22: objectComputeSize is total on empty aggregates. For every value with
\* a valid type and encoding and every sample_size >= 0, a freshly constructed
\* empty quicklist list, hash-table set, hash and skiplist sorted set included,
\* it returns a size without reading through a missing node and without
\* dividing by a sample count of zero; for an empty aggregate the size is that
\* of the header and the empty container; and MEMORY USAGE replies with that
\* size plus the key's overhead.
C22_SizeTotalOnEmpty ==
    /\ \A a \in HeapAddr, n \in SampleSizes :
          (mem.obj[a].st = "live" /\ mem.obj[a].encoding \in ValidEncodings(mem.obj[a].type)) =>
              SizeTotalOn(mem.obj[a], n)
    /\ UsageOnValue =>
          /\ Running
          /\ Len(reply) = 1
          /\ reply[1].type = "integer"
          /\ (Aggregate(mem.obj[last.a]) /\ Len(mem.obj[last.a].ptr.buf) = 0) =>
                reply[1].num = EmptySize(mem.obj[last.a]) + sdsAllocSize(KeySds(last.key))
                                   + SizeofDictEntry

\* the same, for every value but the quicklist list with no node
C22_SizeTotalButEmptyQuicklist ==
    /\ \A a \in HeapAddr, n \in SampleSizes :
          ( /\ mem.obj[a].st = "live"
            /\ mem.obj[a].encoding \in ValidEncodings(mem.obj[a].type)
            /\ ~(mem.obj[a].encoding = "QUICKLIST" /\ Len(mem.obj[a].ptr.buf) = 0) ) =>
              SizeTotalOn(mem.obj[a], n)
    /\ (UsageOnValue /\ ~(mem.obj[last.a].encoding = "QUICKLIST"
                            /\ Len(mem.obj[last.a].ptr.buf) = 0)) =>
          /\ Running
          /\ Len(reply) = 1
          /\ reply[1].type = "integer"
          /\ (Aggregate(mem.obj[last.a]) /\ Len(mem.obj[last.a].ptr.buf) = 0) =>
                reply[1].num = EmptySize(mem.obj[last.a]) + sdsAllocSize(KeySds(last.key))
                                   + SizeofDictEntry

\* MEMORY USAGE was called on a key that holds an empty quicklist list, and the
\* server is down
C22_EmptyQuicklistMeasured ==
    /\ UsageOnValue
    /\ mem.obj[last.a].encoding = "QUICKLIST"
    /\ Len(mem.obj[last.a].ptr.buf) = 0
    /\ ~Running

(***************************************************************************)
(* Ownership and content across tryObjectEncoding (checked under           *)
(* SpecEncode).                                                            *)
(***************************************************************************)
\* the sds of a RAW string, the only payload a string holds apart from its header
RawPayload(o) == IF o.encoding = "RAW" THEN 1 ELSE 0

\* C23: tryObjectEncoding keeps ownership balanced. When the caller holds the
\* only reference to a string o (refcount 1) and tryObjectEncoding(o) returns
\* r, the caller holds exactly one reference to r (refcount 1, or a value of
\* the registry); if r is another header than o, then o's header and payload
\* have been freed exactly once, and if r is o then nothing has been freed but
\* the RAW sds an integer replaced. No path leaks o or frees it twice.
C23_OwnershipBalanced ==
    [][(TryEncodeCall /\ Arg.type = "STRING" /\ Arg.refcount = 1) =>
          /\ mem'.panic = ""
          /\ last'.ret # NULL
          /\ mem'.obj[last'.ret].st = "live"
          /\ \/ mem'.obj[last'.ret].refcount = 1
             \/ /\ last'.ret \in SharedAddrs
                /\ mem'.obj[last'.ret].refcount = OBJ_SHARED_REFCOUNT
                /\ mem'.obj[last'.ret] = mem.obj[last'.ret]
          /\ last'.ret # last'.a =>
                /\ mem'.obj[last'.a].st = "freed"
                /\ mem.hdrFrees[last'.a] = 0 /\ mem'.hdrFrees[last'.a] = 1
                /\ mem.ptrFrees[last'.a] = 0 /\ mem'.ptrFrees[last'.a] = RawPayload(Arg)
          /\ last'.ret = last'.a =>
                /\ mem'.hdrFrees[last'.a] = 0
                /\ mem'.ptrFrees[last'.a] <= 1
                /\ mem'.ptrFrees[last'.a] - mem.ptrFrees[last'.a] =
                       IF mem'.obj[last'.a].encoding # Arg.encoding THEN RawPayload(Arg) ELSE 0
          /\ \A x \in Addr \ {last'.a} :
                /\ mem'.hdrFrees[x] = mem.hdrFrees[x]
                /\ mem'.ptrFrees[x] = mem.ptrFrees[x]
                /\ (x # last'.ret /\ mem.obj[x].st = "live") => mem'.obj[x] = mem.obj[x]]_vars

\* a RAW string of one reference was replaced by an EMBSTR copy of one
\* reference, and its header and its sds were freed once
C23_Witness ==
    /\ last.op = "tryObjectEncoding"
    /\ last.rc0 = 1
    /\ last.a \in HeapAddr /\ last.ret \in HeapAddr
    /\ last.ret # last.a
    /\ mem.obj[last.ret].refcount = 1
    /\ mem.hdrFrees[last.a] = 1
    /\ mem.ptrFrees[last.a] = 1
    /\ mem.hdrFrees[last.ret] = 0

\* the bytes the value holds before the call
ArgBytes == IF Arg.encoding = "INT" THEN ll2string(Arg.ptr.num) ELSE Arg.ptr.buf

C24_NonCanonicalKept ==
    /\ last.op = "tryObjectEncoding"
    /\ last.rc0 = 1
    /\ last.ret \in HeapAddr
    /\ mem.obj[last.ret].encoding = "EMBSTR"
    /\ mem.obj[last.ret].ptr.buf \in {<<"0", "7">>, <<"+", "7">>, <<" ", "4", "2">>, <<"-", "0">>}

=============================================================================
